---- MODULE Spec2Model ----
(***************************************************************************)
(* Credential lifecycle of the dezztech backend: email verification codes  *)
(* (src/auth/models/email_verification_code.py), password reset tokens     *)
(* (src/auth/models/password_reset_token.py) and the AuthService           *)
(* operations that drive them (src/auth/service.py).                       *)
(*                                                                         *)
(* Time is the UTC clock read by datetime.now(timezone.utc), counted in    *)
(* units of 1/Second and observed every TickSeconds seconds. Every service *)
(* operation is one database transaction and is modelled as one atomic     *)
(* action.                                                                 *)
(***************************************************************************)
EXTENDS Integers, Sequences, FiniteSets, TLC

VARIABLES
    now,           \* datetime.now(timezone.utc), in units of 1/Second
    users,         \* table users: id -> row
    reset_tokens,  \* table password_reset_tokens, in insertion order
    codes,         \* table email_verification_codes, in insertion order
    access_tokens, \* the access tokens login has issued (held by clients)
    last,          \* the last operation, its inputs and its outcome
    sessions       \* requests in flight, each in its own database session:
                   \* where the handler stands and what it has read

vars == <<now, users, reset_tokens, codes, access_tokens, last, sessions>>

-----------------------------------------------------------------------------
(* Bounds of the model *)

MaxTime == 1200
TickSeconds == 300
MaxTokens == 3
MaxCodes == 3

-----------------------------------------------------------------------------
(* Program constants *)

MAX_ATTEMPTS == 5
RESEND_COOLDOWN_SECONDS == 60
OTP_VALIDITY_MINUTES == 10
RESET_TOKEN_VALIDITY_MINUTES == 15

\* one second in units of the clock: datetime values carry fractions of a
\* second, so the clock counts half seconds
Second == 2

\* timedelta(minutes=m), in units of the clock
timedelta_minutes(m) == m * 60 * Second

-----------------------------------------------------------------------------
(* Values *)

UserIds == {1, 2}

\* Optional[...]: None is the empty sequence, a value v is <<v>>
None == <<>>
Some(v) == <<v>>

KnownEmails == {"a@x.com", "b@x.com"}
Emails == KnownEmails \cup {"nobody@x.com"}

\* Passwords are strings of characters; three that matter to the flows.
PwFirst == <<"S", "t", "r", "0", "n", "g", "!", "P">>
PwSecond == <<"N", "e", "w", "3", "r", "#", "P", "w">>
PwWeak == <<"w", "e", "a", "k", "p", "a", "s", "s">>
Passwords == {PwFirst, PwSecond, PwWeak}

Lower == {"a", "e", "g", "k", "n", "p", "r", "s", "t", "w"}
Upper == {"N", "P", "S"}
Digit == {"0", "3"}

\* Error codes of the exceptions (error_code of AppException)
OK == "OK"

-----------------------------------------------------------------------------
(* Password policy and hashing *)

\* PASSWORD_REGEX: ^(?=.*[a-z])(?=.*[A-Z])(?=.*\d)(?=.*[\W_]).{8,64}$
\* matched with re.match, without re.DOTALL: "." is any character but the
\* line feed, and "$" is the end of the string or the place before a line
\* feed that ends the string.
Newline == "\n"

\* \w: letters, digits and the underscore
Word == Lower \cup Upper \cup Digit \cup {"_"}

\* ".*" from the start of the string reaches the character at position i
DotStarReaches(p, i) == \A j \in 1..(i - 1) : p[j] # Newline

\* "$" matches after k characters
DollarAt(p, k) == k = Len(p) \/ (k = Len(p) - 1 /\ p[Len(p)] = Newline)

validate_password_strength(p) ==
    /\ \E i \in 1..Len(p) : DotStarReaches(p, i) /\ p[i] \in Lower
    /\ \E i \in 1..Len(p) : DotStarReaches(p, i) /\ p[i] \in Upper
    /\ \E i \in 1..Len(p) : DotStarReaches(p, i) /\ p[i] \in Digit
    /\ \E i \in 1..Len(p) :
          DotStarReaches(p, i) /\ (p[i] \notin Word \/ p[i] = "_")
    /\ \E k \in 8..64 :
          /\ k <= Len(p)
          /\ \A j \in 1..k : p[j] # Newline
          /\ DollarAt(p, k)

\* pwd_context.hash: a salted one-way hash; the salt is part of the hash string
Salts == {0, 1}
hash_password(p, salt) == [scheme |-> "bcrypt", salt |-> salt, digest |-> <<salt, p>>]

\* the random salt bcrypt draws for a new hash: not the salt of the hash it replaces
FreshSalt(old) == CHOOSE s \in Salts : s # old.salt

\* pwd_context.verify: re-hash the plain password with the salt of the stored hash
verify_password(p, h) == h.digest = <<h.salt, p>>

\* User.check_password
check_password(u, p) == verify_password(p, users[u].password_hash)

\* hashlib.sha256(raw.encode()).hexdigest()
sha256_hexdigest(raw) == <<"sha256", raw>>

-----------------------------------------------------------------------------------------------------------------------------------------------------
(* Queries *)

\* User.get_by_email: select(User).where(email == email), scalar_one_or_none
get_by_email(email) == {u \in DOMAIN users : users[u].email = email}

\* select(PasswordResetToken).where(user_id == uid, is_used == False)
ActiveTokensOf(uid) ==
    {i \in 1..Len(reset_tokens) :
        reset_tokens[i].user_id = uid /\ ~reset_tokens[i].is_used}

\* a variant of the lookup without the is_used filter
ActiveTokensByHash_AnyState(h) ==
    {i \in 1..Len(reset_tokens) : reset_tokens[i].token_hash = h}

\* select(PasswordResetToken).where(token_hash == h, is_used == False)
ActiveTokensByHash(h) ==
    {i \in 1..Len(reset_tokens) :
        reset_tokens[i].token_hash = h /\ ~reset_tokens[i].is_used}

-----------------------------------------------------------------------------
(* AuthService.forgot_password *)

\* secrets.token_urlsafe(32): a fresh random token, never issued before.
\* The n-th token issued is the raw token n.
NewRawToken == Len(reset_tokens) + 1

\* a variant that leaves the user's earlier tokens as they are
InvalidateActive_Skip(uid) == reset_tokens

\* the rows after "for token_obj in existing_tokens: token_obj.is_used = True"
InvalidateActive(uid) ==
    [i \in 1..Len(reset_tokens) |->
        IF i \in ActiveTokensOf(uid)
        THEN [reset_tokens[i] EXCEPT !.is_used = TRUE]
        ELSE reset_tokens[i]]

NewResetToken(uid) ==
    [user_id |-> uid,
     token_hash |-> sha256_hexdigest(NewRawToken),
     expires_at |-> now + timedelta_minutes(RESET_TOKEN_VALIDITY_MINUTES),
     is_used |-> FALSE]

\* ForgotPasswordResponse(ok=True), what the route returns when the service
\* call returns
ForgotPasswordResponse == [ok |-> TRUE]

\* a variant that reports an unknown email to the caller
forgot_password_Leaky(email) ==
    LET found == get_by_email(email) IN
    /\ IF found = {}
       THEN /\ UNCHANGED reset_tokens
            /\ last' = [op |-> "forgot_password", email |-> email,
                        err |-> "USER_NOT_FOUND", response |-> None]
       ELSE /\ Len(reset_tokens) < MaxTokens
            /\ \E u \in found :
                 reset_tokens' = Append(InvalidateActive(u), NewResetToken(u))
            /\ last' = [op |-> "forgot_password", email |-> email, err |-> OK,
                        response |-> ForgotPasswordResponse]
    /\ UNCHANGED <<now, users, codes, access_tokens, sessions>>

\* POST /forgot-password: AuthService.forgot_password, then the response
forgot_password(email) ==
    LET found == get_by_email(email) IN
    /\ IF found = {}
       THEN \* "if user is None: return"
            /\ UNCHANGED reset_tokens
            /\ last' = [op |-> "forgot_password", email |-> email, err |-> OK,
                        response |-> ForgotPasswordResponse]
       ELSE /\ Len(reset_tokens) < MaxTokens
            /\ \E u \in found :
                 reset_tokens' = Append(InvalidateActive(u), NewResetToken(u))
            /\ last' = [op |-> "forgot_password", email |-> email, err |-> OK,
                        response |-> ForgotPasswordResponse]
    /\ UNCHANGED <<now, users, codes, access_tokens, sessions>>

-----------------------------------------------------------------------------
(* AuthService.reset_password *)

\* an exception raised before anything was written: nothing is committed
Raised(err) == [err |-> err, tokens |-> reset_tokens, users |-> users]

\* a variant that raises without committing the token as used
ExpiredOutcome_NotCommitted(i) == Raised("OTP_EXPIRED")

\* a variant that reports an expired token as not found
ExpiredOutcome_AsInvalid(i) ==
    [err |-> "OTP_INVALID",
     tokens |-> [reset_tokens EXCEPT ![i].is_used = TRUE],
     users |-> users]

\* "reset_token.is_used = True; await self.db.commit(); raise OTPExpiredException()"
ExpiredOutcome(i) ==
    [err |-> "OTP_EXPIRED",
     tokens |-> [reset_tokens EXCEPT ![i].is_used = TRUE],
     users |-> users]

\* a variant without the reuse check
PasswordReused_Never(u, new_password) == FALSE

\* "if user.check_password(new_password)"
PasswordReused(u, new_password) == check_password(u, new_password)

\* a variant that forgets to mark the token used
SuccessOutcome_TokenLeftUnused(i, u, new_password) ==
    [err |-> OK,
     tokens |-> reset_tokens,
     users |-> [users EXCEPT ![u].password_hash =
                   hash_password(new_password, FreshSalt(users[u].password_hash))]]

\* "user.set_password(new_password); reset_token.is_used = True; commit"
SuccessOutcome(i, u, new_password) ==
    [err |-> OK,
     tokens |-> [reset_tokens EXCEPT ![i].is_used = TRUE],
     users |-> [users EXCEPT ![u].password_hash =
                   hash_password(new_password, FreshSalt(users[u].password_hash))]]

\* The outcome of reset_password(token, new_password) in the current state:
\* the error raised (or OK) and the rows it commits.  Token hashes are unique,
\* so scalar_one_or_none finds one row or none; every token row refers to a
\* user that exists, so the UserNotFoundException branch is never taken.
ResetOutcome(token, new_password) ==
    LET found == ActiveTokensByHash(sha256_hexdigest(token)) IN
    IF found = {}
    THEN Raised("OTP_INVALID")
    ELSE LET i == CHOOSE j \in found : TRUE
             u == reset_tokens[i].user_id
         IN  IF now > reset_tokens[i].expires_at
             THEN ExpiredOutcome(i)
             ELSE IF PasswordReused(u, new_password)
             THEN Raised("PASSWORD_REUSE_NOT_ALLOWED")
             ELSE IF ~validate_password_strength(new_password)
             THEN \* set_password: validate_password_strength raises
                  Raised("WEAK_PASSWORD")
             ELSE SuccessOutcome(i, u, new_password)

reset_password(token, new_password) ==
    LET r == ResetOutcome(token, new_password) IN
    /\ reset_tokens' = r.tokens
    /\ users' = r.users
    /\ last' = [op |-> "reset_password", token |-> token,
                password |-> new_password, err |-> r.err]
    /\ UNCHANGED <<now, codes, access_tokens, sessions>>

-----
(* EmailVerificationCode *)

\* generate_otp_code(): a random numeric code of four digits
OtpCodes == {"1234", "5678"}
\* what a caller may type: the codes above and one that is never generated
InputCodes == OtpCodes \cup {"0000"}

\* a variant that treats the instant of expiry as expired
is_expired_AtExpiry(c) == now >= c.expires_at

\* EmailVerificationCode.is_expired
is_expired(c) == now > c.expires_at

\* EmailVerificationCode.can_resend
\* a cooldown that is still running at exactly RESEND_COOLDOWN_SECONDS
can_resend_Strict(c) == (now - c.last_sent_at) > RESEND_COOLDOWN_SECONDS * Second

can_resend(c) == (now - c.last_sent_at) >= RESEND_COOLDOWN_SECONDS * Second

\* a variant that never finds the attempts used up
has_exceeded_attempts_Never(c) == FALSE

\* EmailVerificationCode.has_exceeded_attempts
has_exceeded_attempts(c) == c.attempts_count >= MAX_ATTEMPTS

\* EmailVerificationCode.increment_attempts
increment_attempts(c) == [c EXCEPT !.attempts_count = @ + 1]

\* EmailVerificationCode.mark_as_used
mark_as_used(c) == [c EXCEPT !.is_used = TRUE]

\* a variant that checks expiry before the attempt cap
verify_or_raise_ExpiryFirst(c, input_code) ==
    IF now > c.expires_at
    THEN [err |-> "OTP_EXPIRED", code |-> c]
    ELSE IF c.attempts_count >= MAX_ATTEMPTS
    THEN [err |-> "OTP_ATTEMPTS_EXCEEDED", code |-> c]
    ELSE IF c.code # input_code
    THEN [err |-> "OTP_INVALID", code |-> [c EXCEPT !.attempts_count = @ + 1]]
    ELSE [err |-> OK, code |-> [c EXCEPT !.is_used = TRUE]]

\* a variant that counts a try on an expired code as an attempt
verify_or_raise_CountExpired(c, input_code) ==
    IF c.attempts_count >= MAX_ATTEMPTS
    THEN [err |-> "OTP_ATTEMPTS_EXCEEDED", code |-> c]
    ELSE IF now > c.expires_at
    THEN [err |-> "OTP_EXPIRED", code |-> [c EXCEPT !.attempts_count = @ + 1]]
    ELSE IF c.code # input_code
    THEN [err |-> "OTP_INVALID", code |-> [c EXCEPT !.attempts_count = @ + 1]]
    ELSE [err |-> OK, code |-> [c EXCEPT !.is_used = TRUE]]

\* EmailVerificationCode.verify_or_raise: the exception raised (or OK) and the
\* row as the method leaves it
verify_or_raise(c, input_code) ==
    IF has_exceeded_attempts(c)
    THEN [err |-> "OTP_ATTEMPTS_EXCEEDED", code |-> c]
    ELSE IF is_expired(c)
    THEN [err |-> "OTP_EXPIRED", code |-> c]
    ELSE IF c.code # input_code
    THEN [err |-> "OTP_INVALID", code |-> increment_attempts(c)]
    ELSE [err |-> OK, code |-> mark_as_used(c)]

\* a variant that takes the oldest unused row of the user
get_latest_active_by_user_id_Oldest(uid) ==
    LET unused == {i \in 1..Len(codes) :
                      codes[i].user_id = uid /\ ~codes[i].is_used}
    IN  IF unused = {} THEN 0
        ELSE CHOOSE i \in unused : \A j \in unused : j >= i

\* EmailVerificationCode.get_latest_active_by_user_id: the unused rows of the
\* user, newest created_at first, limit 1.  created_at grows with insertion
\* order, so the newest row is the one inserted last.  0 stands for no row.
get_latest_active_by_user_id(uid) ==
    LET unused == {i \in 1..Len(codes) :
                      codes[i].user_id = uid /\ ~codes[i].is_used}
    IN  IF unused = {} THEN 0
        ELSE CHOOSE i \in unused : \A j \in unused : j <= i

\* AuthService._create_and_log_otp: the row added for user uid with code otp.
\* issued_for is no column of the table: it keeps, for the properties, which
\* flow called the helper ("verification": register and resend_otp;
\* "email_change": create_email_change_otp)
NewOtp(uid, otp) ==
    [user_id |-> uid,
     code |-> otp,
     expires_at |-> now + timedelta_minutes(OTP_VALIDITY_MINUTES),
     is_used |-> FALSE,
     attempts_count |-> 0,
     last_sent_at |-> now,
     issued_for |-> "verification"]

\* AuthService.create_email_change_otp: the same row, issued for the change
NewEmailChangeOtp(uid, otp) == [NewOtp(uid, otp) EXCEPT !.issued_for = "email_change"]

\* AuthService._create_and_log_otp, its last line: the code leaves the
\* service in log_sensitive_debug(f"Email OTP for {user.email}: {code.code}"),
\* there being no other delivery; the address it names and the code
OtpNotice(uid, otp) == [address |-> users[uid].email, code |-> otp]

-----------------------------------------------------------------------------
(* AuthService.verify_email *)

\* handlers that never turn a verified user away
AlreadyVerified_Ignored(u) == FALSE

\* if user.email_verified_at: raise EmailAlreadyVerifiedException
AlreadyVerified(u) == users[u].email_verified_at # None

\* The outcome of verify_email(email, code): the error raised (or OK), the
\* index of the row handed to verify_or_raise (0: none) and the rows committed.
VerifyEmailOutcome(email, input_code) ==
    LET found == get_by_email(email) IN
    IF found = {}
    THEN [err |-> "USER_NOT_FOUND", row |-> 0, codes |-> codes, users |-> users]
    ELSE LET u == CHOOSE x \in found : TRUE
             i == get_latest_active_by_user_id(u)
         IN  IF AlreadyVerified(u)
             THEN [err |-> "EMAIL_ALREADY_VERIFIED", row |-> 0,
                   codes |-> codes, users |-> users]
             ELSE IF i = 0
             THEN [err |-> "OTP_INVALID", row |-> 0,
                   codes |-> codes, users |-> users]
             ELSE LET r == verify_or_raise(codes[i], input_code) IN
                  IF r.err # OK
                  THEN \* except Exception: await self.db.commit(); raise
                       [err |-> r.err, row |-> i,
                        codes |-> [codes EXCEPT ![i] = r.code], users |-> users]
                  ELSE [err |-> OK, row |-> i,
                        codes |-> [codes EXCEPT ![i] = r.code],
                        users |-> [users EXCEPT ![u].email_verified_at = Some(now)]]

verify_email(email, input_code) ==
    LET r == VerifyEmailOutcome(email, input_code) IN
    /\ codes' = r.codes
    /\ users' = r.users
    /\ last' = [op |-> "verify_email", email |-> email, input |-> input_code,
                row |-> r.row, err |-> r.err]
    /\ UNCHANGED <<now, reset_tokens, access_tokens, sessions>>

-----------------------------------------------------------------------------
(* AuthService.resend_otp *)

\* max(0, int(RESEND_COOLDOWN_SECONDS - elapsed))
CooldownRemaining(c) ==
    LET elapsed == now - c.last_sent_at
        left == RESEND_COOLDOWN_SECONDS * Second - elapsed
    IN  \* int() drops the fraction of a second
        IF left > 0 THEN left \div Second ELSE 0

resend_otp(email) ==
    LET found == get_by_email(email) IN
    /\ UNCHANGED <<now, users, reset_tokens, access_tokens, sessions>>
    /\ IF found = {}
       THEN /\ UNCHANGED codes
            /\ last' = [op |-> "resend_otp", email |-> email,
                        err |-> "USER_NOT_FOUND"]
       ELSE \E u \in found :
            LET i == get_latest_active_by_user_id(u) IN
            IF AlreadyVerified(u)
            THEN /\ UNCHANGED codes
                 /\ last' = [op |-> "resend_otp", email |-> email,
                             err |-> "EMAIL_ALREADY_VERIFIED"]
            ELSE IF i # 0 /\ ~can_resend(codes[i])
            THEN /\ UNCHANGED codes
                 /\ last' = [op |-> "resend_otp", email |-> email,
                             err |-> "OTP_RESEND_TOO_SOON",
                             cooldown_seconds_remaining |->
                                 CooldownRemaining(codes[i])]
            ELSE /\ Len(codes) < MaxCodes
                 /\ \E otp \in OtpCodes : codes' = Append(codes, NewOtp(u, otp))
                 /\ last' = [op |-> "resend_otp", email |-> email, err |-> OK,
                             cooldown_seconds_remaining |->
                                 RESEND_COOLDOWN_SECONDS]

-----------------------------------------------------------------------------
(* Access tokens *)

ACCESS_TOKEN_EXPIRE_MINUTES == 30
MaxSessions == 2
MaxUsers == 3

\* settings.SECRET_KEY, and a key the server does not hold
SECRET_KEY == "SECRET_KEY"
OTHER_KEY == "OTHER_KEY"

\* jwt.encode stores a datetime claim as whole seconds since the epoch
\* (timegm(utctimetuple())): the fraction of a second is dropped
NumericDate(t) == (t \div Second) * Second

\* create_access_token: the claims of the JWT (sub, type, exp, iat), the key
\* it is signed with, and whether the string is a well-formed JWT
create_access_token(subject) ==
    [sub |-> subject, type |-> "access",
     exp |-> NumericDate(now + timedelta_minutes(ACCESS_TOKEN_EXPIRE_MINUTES)),
     iat |-> NumericDate(now),
     key |-> SECRET_KEY, wellformed |-> TRUE]

\* a variant that accepts any signature
decode_token_KeyUnchecked(t) ==
    IF ~t.wellformed THEN "DecodeError"
    ELSE IF t.exp <= now THEN "ExpiredSignatureError"
    ELSE OK

\* decode_token: jwt.decode parses the token, verifies the signature against
\* SECRET_KEY, then the exp claim (expired when exp <= now); OK or the
\* exception it raises
decode_token(t) ==
    IF ~t.wellformed THEN "DecodeError"
    ELSE IF t.key # SECRET_KEY THEN "InvalidSignatureError"
    ELSE IF t.exp <= now THEN "ExpiredSignatureError"
    ELSE OK

\* "except jwt.ExpiredSignatureError" and "except jwt.InvalidTokenError" (the
\* base class of the exceptions jwt.decode raises)
CaughtByVerify == {"ExpiredSignatureError", "InvalidSignatureError", "DecodeError"}

\* the exception that leaves verify_access_token, None when it returns
VerifyRaised(t) ==
    IF decode_token(t) \in {OK} \cup CaughtByVerify THEN None
    ELSE Some(decode_token(t))

\* verify_access_token: the subject, or None
verify_access_token(t) ==
    IF decode_token(t) # OK THEN None
    ELSE IF t.type # "access" THEN None
    ELSE Some(t.sub)

\* a variant that lets a deactivated user in
get_current_user_InactiveAdmitted(t) ==
    LET sub == verify_access_token(t) IN
    IF sub = None THEN [err |-> "INVALID_TOKEN", user |-> 0]
    ELSE IF sub[1] \notin DOMAIN users THEN [err |-> "USER_NOT_FOUND", user |-> 0]
    ELSE [err |-> OK, user |-> sub[1]]

\* get_current_user: the dependency every authenticated route goes through
get_current_user(t) ==
    LET sub == verify_access_token(t) IN
    IF sub = None THEN [err |-> "INVALID_TOKEN", user |-> 0]
    ELSE IF sub[1] \notin DOMAIN users THEN [err |-> "USER_NOT_FOUND", user |-> 0]
    ELSE IF ~users[sub[1]].is_active THEN [err |-> "USER_INACTIVE", user |-> 0]
    ELSE [err |-> OK, user |-> sub[1]]

-----------------------------------------------------------------------------
(* AuthService.login *)

\* the exceptions of login: error_code and details
InvalidCredentialsException ==
    [err |-> "INVALID_CREDENTIALS", details |-> None, token |-> None]
EmailNotVerifiedException ==
    [err |-> "EMAIL_NOT_VERIFIED", details |-> None, token |-> None]
UserInactiveException(user_id) ==
    [err |-> "USER_INACTIVE", details |-> Some(user_id), token |-> None]

\* a login that tells an unknown email from a wrong password
CredentialsRejected_Telling(found, password) ==
    IF found = {} THEN [InvalidCredentialsException EXCEPT !.details = Some("email")]
    ELSE InvalidCredentialsException

\* user is None or not user.check_password(data.password)
CredentialsRejected(found, password) == InvalidCredentialsException

\* a login without the verified-email gate
EmailUnverified_Skipped(u) == FALSE

\* user.email_verified_at is None
EmailUnverified(u) == users[u].email_verified_at = None

\* a login that looks at the account's state before the credentials
LoginOutcome_StateFirst(email, password) ==
    LET found == get_by_email(email) IN
    IF found = {} THEN CredentialsRejected(found, password)
    ELSE LET u == CHOOSE x \in found : TRUE IN
         IF EmailUnverified(u) THEN EmailNotVerifiedException
         ELSE IF ~users[u].is_active THEN UserInactiveException(u)
         ELSE IF ~check_password(u, password) THEN CredentialsRejected(found, password)
         ELSE [err |-> OK, details |-> None,
               token |-> Some(create_access_token(u))]

LoginOutcome(email, password) ==
    LET found == get_by_email(email) IN
    IF found = {} \/ ~check_password(CHOOSE x \in found : TRUE, password)
    THEN CredentialsRejected(found, password)
    ELSE LET u == CHOOSE x \in found : TRUE IN
         IF EmailUnverified(u) THEN EmailNotVerifiedException
         ELSE IF ~users[u].is_active THEN UserInactiveException(u)
         ELSE [err |-> OK, details |-> None,
               token |-> Some(create_access_token(u))]

login(email, password) ==
    LET out == LoginOutcome(email, password) IN
    /\ out.err = OK =>
          \/ out.token[1] \in access_tokens
          \/ Cardinality(access_tokens) < MaxSessions
    /\ access_tokens' = IF out.err = OK THEN access_tokens \cup {out.token[1]}
                        ELSE access_tokens
    /\ last' = [op |-> "login", email |-> email, password |-> password,
                err |-> out.err, details |-> out.details, token |-> out.token]
    /\ UNCHANGED <<now, users, reset_tokens, codes, sessions>>

-----------------------------------------------------------------------------
(* AuthService.register *)

\* RegisterRequest: the password field is validated against the policy
ValidPasswords == {p \in Passwords : validate_password_strength(p)}

\* User.create with UserCreateInternal(role=USER, is_active=True)
NewUser(email, password) ==
    [email |-> email,
     password_hash |-> hash_password(password, 0),
     role |-> "USER",
     email_verified_at |-> None,
     pending_email |-> None,
     is_active |-> TRUE]

\* a register that sends a known, unverified address away
RegisterExisting_Conflict(u, email, password) ==
    /\ UNCHANGED <<users, codes>>
    /\ last' = [op |-> "register", email |-> email, password |-> password,
                err |-> "EMAIL_ALREADY_VERIFIED", user_id |-> 0]

\* register, the email belongs to user u
\* a variant that stores the password of the later call
RegisterExisting_Rehash(u, email, password) ==
    IF AlreadyVerified(u)
    THEN /\ UNCHANGED <<users, codes>>
         /\ last' = [op |-> "register", email |-> email, password |-> password,
                     err |-> "EMAIL_ALREADY_VERIFIED", user_id |-> 0]
    ELSE /\ Len(codes) < MaxCodes
         /\ \E otp \in OtpCodes : codes' = Append(codes, NewOtp(u, otp))
         /\ users' = [users EXCEPT ![u].password_hash =
                         hash_password(password, FreshSalt(users[u].password_hash))]
         /\ last' = [op |-> "register", email |-> email, password |-> password,
                     err |-> OK, user_id |-> u]

RegisterExisting(u, email, password) ==
    IF AlreadyVerified(u)
    THEN /\ UNCHANGED <<users, codes>>
         /\ last' = [op |-> "register", email |-> email, password |-> password,
                     err |-> "EMAIL_ALREADY_VERIFIED", user_id |-> 0]
    ELSE \* user exists but not verified: a new code, no cooldown check
         /\ Len(codes) < MaxCodes
         /\ \E otp \in OtpCodes : codes' = Append(codes, NewOtp(u, otp))
         /\ UNCHANGED users
         /\ last' = [op |-> "register", email |-> email, password |-> password,
                     err |-> OK, user_id |-> u]

\* a register that creates the user already verified
RegisterNew_Verified(email, password) ==
    /\ Len(users) < MaxUsers
    /\ Len(codes) < MaxCodes
    /\ users' = Append(users, [NewUser(email, password) EXCEPT
                                  !.email_verified_at = Some(now)])
    /\ \E otp \in OtpCodes :
          codes' = Append(codes, NewOtp(Len(users) + 1, otp))
    /\ last' = [op |-> "register", email |-> email, password |-> password,
                err |-> OK, user_id |-> Len(users) + 1]

\* a variant whose create_user stores the hash without validating the password
RegisterNew_Unvalidated(email, password) ==
    /\ Len(users) < MaxUsers
    /\ Len(codes) < MaxCodes
    /\ users' = Append(users, NewUser(email, password))
    /\ \E otp \in OtpCodes :
          codes' = Append(codes, NewOtp(Len(users) + 1, otp))
    /\ last' = [op |-> "register", email |-> email, password |-> password,
                err |-> OK, user_id |-> Len(users) + 1]

\* register, no user has the email: create_user (User.create calls
\* set_password, which validates before hashing), a code, one commit
RegisterNew(email, password) ==
    IF ~validate_password_strength(password)
    THEN /\ UNCHANGED <<users, codes>>
         /\ last' = [op |-> "register", email |-> email, password |-> password,
                     err |-> "WEAK_PASSWORD", user_id |-> 0]
    ELSE /\ Len(users) < MaxUsers
         /\ Len(codes) < MaxCodes
         /\ users' = Append(users, NewUser(email, password))
         /\ \E otp \in OtpCodes :
               codes' = Append(codes, NewOtp(Len(users) + 1, otp))
         /\ last' = [op |-> "register", email |-> email, password |-> password,
                     err |-> OK, user_id |-> Len(users) + 1]

register(email, password) ==
    LET found == get_by_email(email) IN
    /\ UNCHANGED <<now, reset_tokens, access_tokens, sessions>>
    /\ IF found # {}
       THEN \E u \in found : RegisterExisting(u, email, password)
       ELSE RegisterNew(email, password)

-----------------------------------------------------------------------------
(* UserService.deactivate_account, behind get_current_user *)

ActiveSuperAdmins ==
    {u \in DOMAIN users : users[u].is_active /\ users[u].role = "SUPER_ADMIN"}

deactivate_account(t, current_password) ==
    LET cur == get_current_user(t)
        u == cur.user
        err == IF cur.err # OK THEN cur.err
               ELSE IF ~check_password(u, current_password) THEN "INVALID_CREDENTIALS"
               ELSE IF users[u].role = "SUPER_ADMIN" /\ ActiveSuperAdmins = {u}
                    THEN "LAST_SUPER_ADMIN"
               ELSE OK
    IN
    /\ users' = IF err = OK THEN [users EXCEPT ![u].is_active = FALSE] ELSE users
    /\ last' = [op |-> "deactivate_account", user |-> u,
                password |-> current_password, err |-> err]
    /\ UNCHANGED <<now, reset_tokens, codes, access_tokens, sessions>>

-----------------------------------------------------------------------------
(* UserService.change_password, behind get_current_user *)

\* a variant that never replaces the hash
NewPasswordHash_Kept(u, new_password) == users[u].password_hash

\* user.set_password(new_password), once validated: hash_password draws a salt
NewPasswordHash(u, new_password) ==
    hash_password(new_password, FreshSalt(users[u].password_hash))

\* data.new_password == data.current_password
SamePassword(new_password, current_password) == new_password = current_password

ChangePasswordError(u, current_password, new_password) ==
    IF ~check_password(u, current_password) THEN "INVALID_CREDENTIALS"
    ELSE IF SamePassword(new_password, current_password)
    THEN "PASSWORD_REUSE_NOT_ALLOWED"
    ELSE IF ~validate_password_strength(new_password) THEN "WEAK_PASSWORD"
    ELSE OK

change_password(t, current_password, new_password) ==
    LET cur == get_current_user(t)
        u == cur.user
        err == IF cur.err # OK THEN cur.err
               ELSE ChangePasswordError(u, current_password, new_password)
    IN
    /\ users' = IF err = OK
                THEN [users EXCEPT ![u].password_hash = NewPasswordHash(u, new_password)]
                ELSE users
    /\ last' = [op |-> "change_password", user |-> u,
                current_password |-> current_password,
                new_password |-> new_password, err |-> err]
    /\ UNCHANGED <<now, reset_tokens, codes, access_tokens, sessions>>

-----------------------------------------------------------------------------
(* UserService.activate_user and deactivate_user, by user id *)

\* get_user_by_id: UserNotFoundException when no row has the id
UserNotFound(user_id) == user_id \notin DOMAIN users

activate_user(user_id) ==
    /\ users' = IF UserNotFound(user_id) THEN users
                ELSE [users EXCEPT ![user_id].is_active = TRUE]
    /\ last' = [op |-> "activate_user", user |-> user_id,
                err |-> IF UserNotFound(user_id) THEN "USER_NOT_FOUND" ELSE OK]
    /\ UNCHANGED <<now, reset_tokens, codes, access_tokens, sessions>>

deactivate_user(user_id) ==
    /\ users' = IF UserNotFound(user_id) THEN users
                ELSE [users EXCEPT ![user_id].is_active = FALSE]
    /\ last' = [op |-> "deactivate_user", user |-> user_id,
                err |-> IF UserNotFound(user_id) THEN "USER_NOT_FOUND" ELSE OK]
    /\ UNCHANGED <<now, reset_tokens, codes, access_tokens, sessions>>

-----------------------------------------------------------------------------
(* UserService.request_email_change and confirm_email_change, behind        *)
(* get_current_user                                                          *)

\* Result.scalar_one_or_none: the row, None, or MultipleResultsFound
scalar_one_or_none(rows) ==
    IF rows = {} THEN [err |-> OK, row |-> None]
    ELSE IF Cardinality(rows) = 1
    THEN [err |-> OK, row |-> Some(CHOOSE r \in rows : TRUE)]
    ELSE [err |-> "MultipleResultsFound", row |-> None]

\* select(User).where(or_(email == e, pending_email == e))
EmailOrPendingRows(email) ==
    {v \in DOMAIN users :
        users[v].email = email \/ users[v].pending_email = Some(email)}

\* User.email_or_pending_exists
email_or_pending_exists(email) ==
    LET r == scalar_one_or_none(EmailOrPendingRows(email)) IN
    [err |-> r.err, exists |-> r.row # None]

\* the error request_email_change raises for user u, or OK
RequestEmailChangeError(u, new_email, current_password) ==
    IF ~check_password(u, current_password) THEN "INVALID_CREDENTIALS"
    ELSE IF new_email = users[u].email THEN "SAME_EMAIL"
    ELSE LET e == email_or_pending_exists(new_email) IN
         IF e.err # OK THEN e.err
         ELSE IF e.exists THEN "EMAIL_ALREADY_IN_USE"
         ELSE OK

request_email_change(t, new_email, current_password) ==
    LET cur == get_current_user(t)
        u == cur.user
        err == IF cur.err # OK THEN cur.err
               ELSE RequestEmailChangeError(u, new_email, current_password)
    IN
    /\ IF err = OK
       THEN /\ Len(codes) < MaxCodes
            /\ users' = [users EXCEPT ![u].pending_email = Some(new_email)]
            /\ \E otp \in OtpCodes : codes' = Append(codes, NewEmailChangeOtp(u, otp))
       ELSE \* except Exception: rollback, raise
            UNCHANGED <<users, codes>>
    /\ last' = [op |-> "request_email_change", user |-> u,
                new_email |-> new_email, password |-> current_password,
                err |-> err,
                notice |-> IF err = OK
                           THEN Some(OtpNotice(u, codes'[Len(codes')].code))
                           ELSE None]
    /\ UNCHANGED <<now, reset_tokens, access_tokens, sessions>>

\* the rows committed when the code passed: the unique constraint on
\* users.email fails the commit, and with it the whole transaction, when
\* another user holds the address
ConfirmCommit_KeepsPending(u, i, code_row) ==
    [err |-> OK,
     codes |-> [codes EXCEPT ![i] = code_row],
     users |-> [users EXCEPT ![u].email = users[u].pending_email[1],
                             ![u].email_verified_at = Some(now)]]

\* the same commit against a table with no unique constraint on email
ConfirmCommit_Unconstrained(u, i, code_row) ==
    [err |-> OK,
     codes |-> [codes EXCEPT ![i] = code_row],
     users |-> [users EXCEPT ![u].email = users[u].pending_email[1],
                             ![u].pending_email = None,
                             ![u].email_verified_at = Some(now)]]

ConfirmCommit(u, i, code_row) ==
    IF \E v \in DOMAIN users :
          v # u /\ users[v].email = users[u].pending_email[1]
    THEN [err |-> "IntegrityError", codes |-> codes, users |-> users]
    ELSE [err |-> OK,
          codes |-> [codes EXCEPT ![i] = code_row],
          users |-> [users EXCEPT ![u].email = users[u].pending_email[1],
                                  ![u].pending_email = None,
                                  ![u].email_verified_at = Some(now)]]

\* The outcome of confirm_email_change for user u: the error raised (or OK),
\* the row handed to verify_or_raise (0: none) and the rows committed
ConfirmEmailChangeOutcome(u, input_code) ==
    LET i == get_latest_active_by_user_id(u) IN
    IF users[u].pending_email = None
    THEN [err |-> "NO_PENDING_EMAIL", row |-> 0, codes |-> codes, users |-> users]
    ELSE IF i = 0
    THEN [err |-> "OTP_INVALID", row |-> 0, codes |-> codes, users |-> users]
    ELSE LET r == verify_or_raise(codes[i], input_code) IN
         IF r.err # OK
         THEN \* except Exception: await self.db.commit(); raise
              [err |-> r.err, row |-> i,
               codes |-> [codes EXCEPT ![i] = r.code], users |-> users]
         ELSE LET c == ConfirmCommit(u, i, r.code) IN
              [err |-> c.err, row |-> i, codes |-> c.codes, users |-> c.users]

confirm_email_change(t, input_code) ==
    LET cur == get_current_user(t)
        u == cur.user
        r == IF cur.err # OK
             THEN [err |-> cur.err, row |-> 0, codes |-> codes, users |-> users]
             ELSE ConfirmEmailChangeOutcome(u, input_code)
    IN
    /\ codes' = r.codes
    /\ users' = r.users
    /\ last' = [op |-> "confirm_email_change", user |-> u,
                input |-> input_code, row |-> r.row, err |-> r.err]
    /\ UNCHANGED <<now, reset_tokens, access_tokens, sessions>>

-----------------------------------------------------------------------------
(* The clock *)

Tick ==
    /\ now + TickSeconds * Second <= MaxTime * Second
    /\ now' = now + TickSeconds * Second
    /\ last' = [op |-> "tick"]
    /\ UNCHANGED <<users, reset_tokens, codes, access_tokens, sessions>>

-----------------------------------------------------------------------------
(* Password recovery: registered users ask for reset tokens and redeem them *)

RegisteredUsers ==
    [u \in UserIds |->
        [email |-> IF u = 1 THEN "a@x.com" ELSE "b@x.com",
         password_hash |-> hash_password(PwFirst, 0),
         role |-> "USER",
         email_verified_at |-> Some(0),
         pending_email |-> None,
         is_active |-> TRUE]]

InitReset ==
    /\ sessions = <<>>
    /\ now = 0
    /\ users = RegisteredUsers
    /\ reset_tokens = <<>>
    /\ codes = <<>>
    /\ access_tokens = {}
    /\ last = [op |-> "init"]

NextReset ==
    \/ \E email \in Emails : forgot_password(email)
    \/ \E token \in 0..MaxTokens, p \in Passwords : reset_password(token, p)
    \/ Tick

SpecReset == InitReset /\ [][NextReset]_vars

-----------------------------------------------------------------------------
(* Email verification: user 1 has just registered (register creates the     *)
(* user, unverified, and its first code in one commit); user 2 registered    *)
(* and verified its address with the code it was sent                        *)

OTPUsers ==
    [u \in UserIds |->
        IF u = 1 THEN [RegisteredUsers[u] EXCEPT !.email_verified_at = None]
        ELSE RegisteredUsers[u]]

InitOTP ==
    /\ sessions = <<>>
    /\ now = 0
    /\ users = OTPUsers
    /\ reset_tokens = <<>>
    /\ codes = <<mark_as_used(NewOtp(2, "5678")), NewOtp(1, "1234")>>
    /\ access_tokens = {}
    /\ last = [op |-> "init"]

NextOTP ==
    \/ \E email \in Emails, c \in InputCodes : verify_email(email, c)
    \/ \E email \in Emails : resend_otp(email)
    \/ Tick

SpecOTP == InitOTP /\ [][NextOTP]_vars

-----------------------------------------------------------------------------
(* Accounts: an empty database; users register, verify their address, log   *)
(* in, recover their password and deactivate their account                  *)

InitAuth ==
    /\ sessions = <<>>
    /\ now = 0
    /\ users = <<>>
    /\ reset_tokens = <<>>
    /\ codes = <<>>
    /\ access_tokens = {}
    /\ last = [op |-> "init"]

\* the addresses used here: one that registers and one that never does
NewEmails == {"a@x.com"}
AuthEmails == NewEmails \cup {"nobody@x.com"}

AuthMaxCodes == 2
AuthMaxTokens == 1
AuthMaxAttempts == 1
AuthMaxTime == 300

\* the tables and the clock stay within the bounds of the specifications of
\* accounts and of email change
AuthBounded ==
    /\ Len(codes') <= AuthMaxCodes
    /\ Len(reset_tokens') <= AuthMaxTokens
    /\ \A i \in DOMAIN codes' : codes'[i].attempts_count <= AuthMaxAttempts
    \* which code the generator draws plays no part here: one value
    /\ \A i \in DOMAIN codes' : codes'[i].code = "1234"
    /\ now' <= AuthMaxTime * Second

NextAuth ==
    \/ \E email \in NewEmails : register(email, PwFirst) /\ AuthBounded
    \/ \E email \in AuthEmails, c \in InputCodes :
          verify_email(email, c) /\ AuthBounded
    \/ \E email \in AuthEmails : resend_otp(email) /\ AuthBounded
    \/ \E email \in AuthEmails, p \in Passwords : login(email, p)
    \/ \E email \in AuthEmails : forgot_password(email) /\ AuthBounded
    \/ \E token \in 0..AuthMaxTokens, p \in Passwords : reset_password(token, p)
    \/ \E t \in access_tokens, p \in Passwords : deactivate_account(t, p)
    \/ Tick /\ AuthBounded

SpecAuth == InitAuth /\ [][NextAuth]_vars

-----------------------------------------------------------------------------
(* Registration: an empty database; users register, are sent codes and      *)
(* verify their address                                                      *)

\* the codes table stays within the bound of this specification
RegisterBounded == Len(codes') <= AuthMaxCodes

NextRegister ==
    \/ \E email \in NewEmails : register(email, PwFirst) /\ RegisterBounded
    \/ \E email \in AuthEmails, c \in InputCodes : verify_email(email, c)
    \/ \E email \in AuthEmails : resend_otp(email) /\ RegisterBounded
    \/ Tick

SpecRegister == InitAuth /\ [][NextRegister]_vars

-----------------------------------------------------------------------------
(* The resend cooldown: a user has just registered and asks for its code    *)
(* again while the clock advances by fractions of a second                   *)

CooldownMaxTime == 125

InitCooldown ==
    /\ sessions = <<>>
    /\ now = 0
    /\ users = <<NewUser("a@x.com", PwFirst)>>
    /\ reset_tokens = <<>>
    /\ codes = <<NewOtp(1, "1234")>>
    /\ access_tokens = {}
    /\ last = [op |-> "init"]

\* the clock moves on by the smallest unit
TickFraction ==
    /\ now + 1 <= CooldownMaxTime * Second
    /\ now' = now + 1
    /\ last' = [op |-> "tick"]
    /\ UNCHANGED <<users, reset_tokens, codes, access_tokens, sessions>>

NextCooldown ==
    \/ \E email \in AuthEmails : resend_otp(email)
    \/ TickFraction

SpecCooldown == InitCooldown /\ [][NextCooldown]_vars

-----------------------------------------------------------------------------
(* Email change: two verified users are logged in and change their address  *)
(* while a third address registers.  The used codes of their registration   *)
(* are left out: no query reads a used row                                   *)

\* the addresses asked for: a free one and one that is a user's email
ChangeEmails == {"c@x.com", "a@x.com"}

InitChange ==
    /\ sessions = <<>>
    /\ now = 0
    /\ users = RegisteredUsers
    /\ reset_tokens = <<>>
    /\ codes = <<>>
    /\ access_tokens = {create_access_token(u) : u \in UserIds}
    /\ last = [op |-> "init"]

NextChange ==
    \/ \E t \in access_tokens, e \in ChangeEmails, p \in {PwFirst, PwSecond} :
          request_email_change(t, e, p) /\ AuthBounded
    \/ \E t \in access_tokens, c \in InputCodes :
          confirm_email_change(t, c) /\ AuthBounded
    \/ register("c@x.com", PwFirst) /\ AuthBounded
    \/ Tick /\ AuthBounded

SpecChange == InitChange /\ [][NextChange]_vars

-----------------------------------------------------------------------------
(* Properties of EmailVerificationCode.verify_or_raise, as verify_email      *)
(* calls it on the row last'.row                                             *)

\* a step in which verify_email handed a row to verify_or_raise
VerifyStep == last'.op = "verify_email" /\ last'.row # 0

\* C1: once a code has 5 mismatched attempts, every later verify_or_raise on
\* it raises OTPAttemptsExceeded, whether the input is right or wrong and
\* whether or not the code has expired, and leaves the row (is_used and
\* attempts_count) unchanged; the count never falls back below 5.
C1_Step ==
    /\ VerifyStep /\ codes[last'.row].attempts_count >= 5
         => /\ last'.err = "OTP_ATTEMPTS_EXCEEDED"
            /\ codes' = codes
    /\ \A i \in 1..Len(codes) :
         codes[i].attempts_count >= 5 => codes'[i].attempts_count >= 5
C1_ExhaustedAlwaysRejected == [][C1_Step]_vars

\* C1 witness: the right code, typed after expiry, is refused as exhausted
C1_Witness ==
    /\ last.op = "verify_email" /\ last.row # 0
    /\ last.err = "OTP_ATTEMPTS_EXCEEDED"
    /\ last.input = codes[last.row].code
    /\ now > codes[last.row].expires_at
    /\ codes[last.row].attempts_count = 5
    /\ ~codes[last.row].is_used

\* C2: on an unused code with fewer than 5 attempts the correct input succeeds
\* iff now <= expires_at, which is 10 minutes (600 s) after issue; after that it
\* raises OTPExpired and changes neither is_used nor attempts_count.
C2_Step ==
    VerifyStep =>
      LET c == codes[last'.row] IN
      (~c.is_used /\ c.attempts_count < 5 /\ last'.input = c.code) =>
        /\ c.expires_at = c.last_sent_at + 600 * Second
        /\ IF now <= c.expires_at
           THEN /\ last'.err = "OK"
                /\ codes' = [codes EXCEPT ![last'.row].is_used = TRUE]
           ELSE /\ last'.err = "OTP_EXPIRED"
                /\ codes' = codes
C2_CorrectCodeSucceedsIffNotExpired == [][C2_Step]_vars

\* C2 witness: the correct code on an expired, unused, non-exhausted row
C2_Witness ==
    /\ last.op = "verify_email" /\ last.row # 0
    /\ last.err = "OTP_EXPIRED"
    /\ last.input = codes[last.row].code
    /\ codes[last.row].attempts_count < 5
    /\ ~codes[last.row].is_used

\* C3: verify_or_raise adds exactly 1 to attempts_count when the code is not
\* exhausted, not expired and the input differs from the stored code; in every
\* other outcome, and for every other row, attempts_count is unchanged.
C3_Step ==
    \A i \in 1..Len(codes) :
      codes'[i].attempts_count =
        IF /\ VerifyStep /\ i = last'.row
           /\ codes[i].attempts_count < 5
           /\ ~(now > codes[i].expires_at)
           /\ last'.input # codes[i].code
        THEN codes[i].attempts_count + 1
        ELSE codes[i].attempts_count
C3_OnlyMismatchConsumesAttempt == [][C3_Step]_vars

\* C3 witness: a second live mismatch has just been counted
C3_Witness ==
    /\ last.op = "verify_email" /\ last.row # 0
    /\ last.err = "OTP_INVALID"
    /\ last.input # codes[last.row].code
    /\ codes[last.row].attempts_count = 2
    /\ now <= codes[last.row].expires_at

-----------------------------------------------------------------------------
(* Properties of the password reset tokens                                   *)

\* a step of reset_password, and the rows that hold the hash of its raw token
ResetStep == last'.op = "reset_password"
RowsOf(token) ==
    {i \in 1..Len(reset_tokens) :
        reset_tokens[i].token_hash = sha256_hexdigest(token)}
\* a step of forgot_password that issued a token
IssueStep ==
    last'.op = "forgot_password" /\ Len(reset_tokens') = Len(reset_tokens) + 1
Superseded(i) ==
    \E j \in 1..Len(reset_tokens) :
        j > i /\ reset_tokens[j].user_id = reset_tokens[i].user_id

\* C4: when forgot_password issues a further token for a user, the user's
\* earlier tokens are marked used; reset_password with a superseded raw token
\* fails as not found and changes nothing, while the newest token, unused and
\* unexpired, redeems with a valid new password.
C4_Step ==
    /\ IssueStep =>
         \A i \in 1..Len(reset_tokens) :
            reset_tokens[i].user_id = reset_tokens'[Len(reset_tokens')].user_id
               => reset_tokens'[i].is_used
    /\ ResetStep =>
         \A i \in RowsOf(last'.token) :
            IF Superseded(i)
            THEN /\ last'.err = "OTP_INVALID"
                 /\ UNCHANGED <<users, reset_tokens>>
            ELSE (/\ ~reset_tokens[i].is_used
                  /\ now <= reset_tokens[i].expires_at
                  /\ last'.password \in {PwFirst, PwSecond}
                  /\ ~verify_password(last'.password,
                         users[reset_tokens[i].user_id].password_hash))
                 => /\ last'.err = "OK"
                    /\ verify_password(last'.password,
                          users'[reset_tokens[i].user_id].password_hash)
C4_SupersededTokenFails == [][C4_Step]_vars

\* C4 witness: the first of two tokens of one user, still inside its validity
\* and never redeemed, has just been refused while the second is still unused
C4_Witness ==
    /\ last.op = "reset_password" /\ last.token = 1
    /\ last.err = "OTP_INVALID"
    /\ Len(reset_tokens) = 2
    /\ reset_tokens[1].user_id = reset_tokens[2].user_id
    /\ reset_tokens[1].is_used /\ ~reset_tokens[2].is_used
    /\ now <= reset_tokens[1].expires_at
    /\ users = RegisteredUsers

\* C5: every user has at most one reset token with is_used = false.
C5_AtMostOneActiveToken ==
    \A u \in UserIds :
        Cardinality({i \in 1..Len(reset_tokens) :
            reset_tokens[i].user_id = u /\ ~reset_tokens[i].is_used}) <= 1

\* C5 witness: a user who asked twice holds one unused token, the other user
\* holds one too
C5_Witness ==
    /\ Len(reset_tokens) = 3
    /\ \E u \in UserIds :
         /\ Cardinality({i \in 1..3 : reset_tokens[i].user_id = u}) = 2
         /\ Cardinality({i \in 1..3 :
               reset_tokens[i].user_id = u /\ ~reset_tokens[i].is_used}) = 1
    /\ Cardinality({i \in 1..3 : ~reset_tokens[i].is_used}) = 2

\* C6: a successful reset_password replaces the password and marks the token
\* used in the same commit; is_used never returns to false; every later
\* reset_password with a used token fails as not found and changes nothing.
C6_Step ==
    /\ (ResetStep /\ last'.err = "OK") =>
         /\ RowsOf(last'.token) # {}
         /\ \A i \in RowsOf(last'.token) :
              /\ ~reset_tokens[i].is_used
              /\ reset_tokens'[i].is_used
              /\ verify_password(last'.password,
                    users'[reset_tokens[i].user_id].password_hash)
              /\ ~verify_password(last'.password,
                    users[reset_tokens[i].user_id].password_hash)
    /\ ResetStep =>
         \A i \in RowsOf(last'.token) :
            reset_tokens[i].is_used =>
               /\ last'.err = "OTP_INVALID"
               /\ UNCHANGED <<users, reset_tokens>>
    /\ \A i \in 1..Len(reset_tokens) :
         reset_tokens[i].is_used => reset_tokens'[i].is_used
C6_TokenIsSingleUse == [][C6_Step]_vars

\* C6 witness: the only token ever issued, redeemed (the password is the new
\* one) and presented again before its expiry
C6_Witness ==
    /\ last.op = "reset_password" /\ last.token = 1
    /\ last.err = "OTP_INVALID"
    /\ Len(reset_tokens) = 1
    /\ reset_tokens[1].is_used
    /\ now <= reset_tokens[1].expires_at
    /\ verify_password(PwSecond, users[reset_tokens[1].user_id].password_hash)

\* C7: a token expires 15 minutes (900 s) after issue.  reset_password with
\* an unused token raises the expired error iff now > expires_at; it then
\* commits the token as used and changes no password, and the same token
\* presented again fails as not found.
C7_Step ==
    /\ IssueStep =>
         /\ reset_tokens'[Len(reset_tokens')].expires_at = now + 900 * Second
         /\ ~reset_tokens'[Len(reset_tokens')].is_used
    /\ ResetStep =>
         \A i \in RowsOf(last'.token) :
            ~reset_tokens[i].is_used =>
               /\ (last'.err = "OTP_EXPIRED") <=> (now > reset_tokens[i].expires_at)
               /\ (now > reset_tokens[i].expires_at) =>
                     /\ users' = users
                     /\ reset_tokens' = [reset_tokens EXCEPT ![i].is_used = TRUE]
    /\ (/\ last.op = "reset_password" /\ last.err = "OTP_EXPIRED"
        /\ ResetStep /\ last'.token = last.token) =>
         /\ last'.err = "OTP_INVALID"
         /\ UNCHANGED <<users, reset_tokens>>
C7_ExpiredTokenIsRetired == [][C7_Step]_vars

\* C7 witness: the only token ever issued, never redeemed (no password was
\* changed), retired after its expiry and presented once more
C7_Witness ==
    /\ last.op = "reset_password" /\ last.token = 1
    /\ last.err = "OTP_INVALID"
    /\ Len(reset_tokens) = 1
    /\ reset_tokens[1].is_used
    /\ now > reset_tokens[1].expires_at
    /\ users = RegisteredUsers

\* C8: reset_password with an unused, unexpired token and a new password that
\* verifies against the user's current hash raises PasswordReuseNotAllowed;
\* the hash is unchanged and the token stays unused.
C8_Step ==
    ResetStep =>
      \A i \in RowsOf(last'.token) :
         (/\ ~reset_tokens[i].is_used
          /\ now <= reset_tokens[i].expires_at
          /\ verify_password(last'.password,
                users[reset_tokens[i].user_id].password_hash))
         => /\ last'.err = "PASSWORD_REUSE_NOT_ALLOWED"
            /\ users' = users
            /\ reset_tokens' = reset_tokens
            /\ ~reset_tokens'[i].is_used
C8_ReuseRejectedTokenKept == [][C8_Step]_vars

\* C8 witness: after one reset to a new password, a second token is presented
\* with that same password and stays unused
C8_Witness ==
    /\ last.op = "reset_password" /\ last.token = 2
    /\ last.err = "PASSWORD_REUSE_NOT_ALLOWED"
    /\ last.password = PwSecond
    /\ Len(reset_tokens) >= 2
    /\ ~reset_tokens[2].is_used
    /\ verify_password(PwSecond, users[reset_tokens[2].user_id].password_hash)

\* the unused rows that hold the hash of a raw token
ActiveRowsOf(token) == {i \in RowsOf(token) : ~reset_tokens[i].is_used}
\* reset_password fails because of the token: no unused row, or an expired one
TokenCausedFailure(token) ==
    \/ ActiveRowsOf(token) = {}
    \/ \E i \in ActiveRowsOf(token) : now > reset_tokens[i].expires_at

\* C9 as stated: every reset_password failure caused by the token is reported
\* as the kind InvalidOrExpiredToken, never as an OTP* kind.
C9_Original_Step ==
    (ResetStep /\ TokenCausedFailure(last'.token)) =>
       /\ last'.err = "INVALID_OR_EXPIRED_TOKEN"
       /\ last'.err \notin {"OTP_INVALID", "OTP_EXPIRED",
                            "OTP_ATTEMPTS_EXCEEDED", "OTP_RESEND_TOO_SOON"}
C9_Original == [][C9_Original_Step]_vars

\* C9 amended: a reset_password failure caused by the token is reported as
\* OTP_INVALID when no unused token has the hash (not found, already used,
\* superseded) and as OTP_EXPIRED when the unused token has expired, and these
\* two kinds are raised for no other reason.
C9_Step ==
    ResetStep =>
       /\ ActiveRowsOf(last'.token) = {} => last'.err = "OTP_INVALID"
       /\ \A i \in ActiveRowsOf(last'.token) :
             now > reset_tokens[i].expires_at => last'.err = "OTP_EXPIRED"
       /\ last'.err \in {"OTP_INVALID", "OTP_EXPIRED"}
             => TokenCausedFailure(last'.token)
C9_TokenFailuresAreOTPKinds == [][C9_Step]_vars

\* C9 witness: an issued token, superseded by a newer one and long expired,
\* is refused with OTP_INVALID
C9_Witness ==
    /\ last.op = "reset_password" /\ last.token = 1
    /\ last.err = "OTP_INVALID"
    /\ Len(reset_tokens) >= 2
    /\ reset_tokens[1].user_id = reset_tokens[2].user_id
    /\ now > reset_tokens[1].expires_at

\* C10: forgot_password has one outcome, success with the response ok = true,
\* whether or not a user has the email; when none has, no token is created
\* and no row changes.
C10_Step ==
    last'.op = "forgot_password" =>
       /\ last'.err = "OK"
       /\ last'.response = [ok |-> TRUE]
       /\ (\A u \in UserIds : users[u].email # last'.email)
             => UNCHANGED <<users, reset_tokens, codes>>
C10_ForgotPasswordDoesNotLeak == [][C10_Step]_vars

\* C10 witness: forgot_password for an unknown email, with a user's unused
\* token in the table
C10_Witness ==
    /\ last.op = "forgot_password"
    /\ last.email = "nobody@x.com"
    /\ last.err = "OK"
    /\ \E i \in 1..Len(reset_tokens) : ~reset_tokens[i].is_used

-----------------------------------------------------------------------------
(* Properties of AuthService.login. login changes no row, so the users      *)
(* table of the state after it is the table it read                          *)

\* the users login found for the email it was given
LoginFound == get_by_email(last.email)
\* login was given the email of a user and that user's password
LoginCredentialsRight ==
    /\ LoginFound # {}
    /\ \A u \in LoginFound : check_password(u, last.password)

\* C11: login never issues an access token to a user whose email_verified_at
\* is null: a login for such a user's email returns no token, and every token
\* ever issued names a verified user, whatever register, resend_otp,
\* forgot_password, reset_password and deactivate_account calls came before
C11_UnverifiedNeverLogsIn ==
    /\ \A t \in access_tokens : users[t.sub].email_verified_at # None
    /\ last.op = "login" =>
          \A u \in LoginFound :
              users[u].email_verified_at = None =>
                  last.token = None /\ last.err # OK

\* an unverified user that has reset its password logs in with the new
\* password, after being sent a second code, and is turned away
C11_Witness ==
    /\ last.op = "login"
    /\ LoginCredentialsRight
    /\ \E u \in LoginFound :
          /\ users[u].email_verified_at = None
          /\ last.password = PwSecond
          /\ \E i \in DOMAIN reset_tokens :
                reset_tokens[i].user_id = u /\ reset_tokens[i].is_used
    /\ Len(codes) = 2
    /\ last.err = "EMAIL_NOT_VERIFIED"

\* C12: login reports the first gate that fails, in the order credentials
\* (unknown email or wrong password: INVALID_CREDENTIALS), verified email
\* (EMAIL_NOT_VERIFIED), active account (USER_INACTIVE), and issues a token
\* exactly when all three pass
C12_LoginGateOrder ==
    last.op = "login" =>
        /\ ~LoginCredentialsRight => last.err = "INVALID_CREDENTIALS"
        /\ LoginCredentialsRight =>
              \A u \in LoginFound :
                  /\ users[u].email_verified_at = None
                        => last.err = "EMAIL_NOT_VERIFIED"
                  /\ users[u].email_verified_at # None /\ ~users[u].is_active
                        => last.err = "USER_INACTIVE"
                  /\ users[u].email_verified_at # None /\ users[u].is_active
                        => /\ last.err = OK
                           /\ last.token # None
                           /\ last.token[1].sub = u
                           /\ last.token[1] \in access_tokens
        /\ last.token # None <=> last.err = OK

\* a wrong password on an unverified account is reported as invalid
\* credentials, not as an unverified email
C12_Witness ==
    /\ last.op = "login"
    /\ \E u \in LoginFound :
          /\ ~check_password(u, last.password)
          /\ users[u].email_verified_at = None
    /\ last.err = "INVALID_CREDENTIALS"

\* a login step that was given an unknown email or a wrong password
C13_BadCredentials ==
    \/ get_by_email(last'.email) = {}
    \/ \E u \in get_by_email(last'.email) : ~check_password(u, last'.password)

\* C13: login with an unknown email and login with a wrong password for an
\* existing user have the same outcome, whatever the state of that user:
\* INVALID_CREDENTIALS with empty details, no token, no change of state
C13_Step ==
    last'.op = "login" /\ C13_BadCredentials =>
        /\ last'.err = "INVALID_CREDENTIALS"
        /\ last'.details = None
        /\ last'.token = None
        /\ UNCHANGED <<now, users, reset_tokens, codes, access_tokens>>
C13_InvalidCredentialsUniform == [][C13_Step]_vars

\* a wrong password for a deactivated account got the generic error
C13_Witness ==
    /\ last.op = "login"
    /\ \E u \in LoginFound :
          ~check_password(u, last.password) /\ ~users[u].is_active
    /\ last.err = "INVALID_CREDENTIALS"
    /\ last.details = None

-----------------------------------------------------------------------------
(* Properties of AuthService.register and of the handlers of verified users *)

\* a register step for an email no user had
RegisterNewStep == last'.op = "register" /\ get_by_email(last'.email) = {}

\* verify_email is given the code of the user's latest unused row, which
\* nobody has tried yet and which has not expired
FreshCodeGiven(u) ==
    LET i == get_latest_active_by_user_id(u) IN
    /\ i # 0
    /\ codes[i].attempts_count = 0
    /\ now <= codes[i].expires_at
    /\ last'.input = codes[i].code

\* C14: register for an email with no user adds, in one step, a user that is
\* unverified, active and of role USER and one code for it that is unused,
\* has attempts_count 0 and expires in 10 minutes; verify_email with an
\* untried code before its expiry succeeds and sets email_verified_at
C14_Step ==
    /\ RegisterNewStep =>
          /\ last'.err = OK
          /\ Len(users') = Len(users) + 1
          /\ \A u \in DOMAIN users : users'[u] = users[u]
          /\ LET new == users'[Len(users')] IN
                /\ new.email = last'.email
                /\ new.email_verified_at = None
                /\ new.is_active
                /\ new.role = "USER"
          /\ last'.user_id = Len(users')
          /\ Len(codes') = Len(codes) + 1
          /\ \A i \in DOMAIN codes : codes'[i] = codes[i]
          /\ LET c == codes'[Len(codes')] IN
                /\ c.user_id = Len(users')
                /\ ~c.is_used
                /\ c.attempts_count = 0
                /\ c.expires_at = now + 10 * 60 * Second
    /\ last'.op = "verify_email" =>
          \A u \in get_by_email(last'.email) :
              users[u].email_verified_at = None /\ FreshCodeGiven(u) =>
                  /\ last'.err = OK
                  /\ users'[u].email_verified_at = Some(now)
C14_RegisterThenVerify == [][C14_Step]_vars

\* the user verified its address, minutes after registering, with the one
\* code register made
C14_Witness ==
    /\ last.op = "verify_email"
    /\ last.err = OK
    /\ Len(codes) = 1
    /\ codes[1].is_used
    /\ now > codes[1].last_sent_at
    /\ \E u \in get_by_email(last.email) : users[u].email_verified_at = Some(now)

\* C15: register for an email that belongs to a user: a verified user gets
\* EMAIL_ALREADY_VERIFIED and nothing changes; an unverified user gets no
\* second user but one new code, and the response carries that user's id
C15_Step ==
    last'.op = "register" =>
        \A u \in get_by_email(last'.email) :
            /\ users[u].email_verified_at # None =>
                  /\ last'.err = "EMAIL_ALREADY_VERIFIED"
                  /\ UNCHANGED <<users, codes, reset_tokens, access_tokens>>
            /\ users[u].email_verified_at = None =>
                  /\ last'.err = OK
                  /\ last'.user_id = u
                  /\ users' = users
                  /\ Len(codes') = Len(codes) + 1
                  /\ \A i \in DOMAIN codes : codes'[i] = codes[i]
                  /\ LET c == codes'[Len(codes')] IN
                        c.user_id = u /\ ~c.is_used /\ c.attempts_count = 0
C15_RegisterExistingEmail == [][C15_Step]_vars

\* registering again gave the unverified user a second code
C15_Witness ==
    /\ last.op = "register"
    /\ last.err = OK
    /\ Len(users) = 1
    /\ last.user_id = 1
    /\ users[1].email_verified_at = None
    /\ Len(codes) = 2
    /\ \A i \in DOMAIN codes : codes[i].user_id = 1

\* C16: verify_email and resend_otp for a verified user raise
\* EMAIL_ALREADY_VERIFIED whatever code is given and whatever that user's
\* codes look like, and leave the codes table as it is
C16_Step ==
    last'.op \in {"verify_email", "resend_otp"} =>
        \A u \in get_by_email(last'.email) :
            users[u].email_verified_at # None =>
                /\ last'.err = "EMAIL_ALREADY_VERIFIED"
                /\ UNCHANGED <<users, codes>>
C16_VerifiedUserGetsConflict == [][C16_Step]_vars

\* a verified user that still has an unused code, tried five times, was
\* given the conflict by verify_email
C16_Witness ==
    /\ last.op = "verify_email"
    /\ last.err = "EMAIL_ALREADY_VERIFIED"
    /\ \E u \in get_by_email(last.email) :
          \E i \in DOMAIN codes :
              /\ codes[i].user_id = u
              /\ ~codes[i].is_used
              /\ codes[i].attempts_count = MAX_ATTEMPTS
              /\ last.input = codes[i].code

-----------------------------------------------------------------------------
(* Properties of the resend cooldown *)

\* C17: resend_otp for an unverified user whose latest unused code was sent
\* elapsed seconds ago raises OTP_RESEND_TOO_SOON, with the whole seconds of
\* 60 - elapsed (never below 0) as the remaining time and no new code, when
\* elapsed < 60; it succeeds and adds a code when elapsed >= 60, exactly 60
\* included
C17_Step ==
    last'.op = "resend_otp" =>
        \A u \in get_by_email(last'.email) :
            LET i == get_latest_active_by_user_id(u)
                elapsed == now - codes[i].last_sent_at
            IN  users[u].email_verified_at = None /\ i # 0 =>
                /\ elapsed < 60 * Second =>
                      /\ last'.err = "OTP_RESEND_TOO_SOON"
                      /\ last'.cooldown_seconds_remaining
                            = (60 * Second - elapsed) \div Second
                      /\ last'.cooldown_seconds_remaining >= 0
                      /\ codes' = codes
                /\ elapsed >= 60 * Second =>
                      /\ last'.err = OK
                      /\ Len(codes') = Len(codes) + 1
                      /\ \A j \in DOMAIN codes : codes'[j] = codes[j]
                      /\ codes'[Len(codes')].user_id = u
                      /\ codes'[Len(codes')].last_sent_at = now
C17_ResendCooldown == [][C17_Step]_vars

\* half a second before the cooldown of the second code ends, resend_otp is
\* refused with 0 seconds remaining
C17_Witness ==
    /\ last.op = "resend_otp"
    /\ last.err = "OTP_RESEND_TOO_SOON"
    /\ last.cooldown_seconds_remaining = 0
    /\ Len(codes) = 2
    /\ codes[2].last_sent_at = 60 * Second
    /\ 2 * (now - codes[2].last_sent_at) = 119 * Second

\* the rows of the codes table that belong to user u, oldest first
CodesOf(u) == {i \in DOMAIN codes : codes[i].user_id = u}
\* j is the code issued to the user of code i right after i
NextIssued(i, j) ==
    /\ j \in CodesOf(codes[i].user_id)
    /\ i < j
    /\ \A k \in CodesOf(codes[i].user_id) : ~(i < k /\ k < j)

\* C18: between any two consecutive codes issued to one user, whichever of
\* register, resend_otp and request_email_change issued them, lie at least
\* 60 seconds
C18_CooldownBetweenIssuances ==
    \A i, j \in DOMAIN codes :
        NextIssued(i, j) =>
            codes[j].last_sent_at - codes[i].last_sent_at >= 60 * Second

-----------------------------------------------------------------------------
(* Properties of the email change of an authenticated user last'.user *)

\* a step of the given operation that got past get_current_user
ChangeStep(op) == last'.op = op /\ last'.user # 0

\* some user has the address as its email or as its pending_email
InUse(email) ==
    \E v \in DOMAIN users :
        users[v].email = email \/ users[v].pending_email = Some(email)

\* confirm_email_change is given the code of the user's latest unused row,
\* which has neither expired nor used up its attempts
LiveCodeGiven(u) ==
    LET i == get_latest_active_by_user_id(u) IN
    /\ i # 0
    /\ codes[i].attempts_count < MAX_ATTEMPTS
    /\ now <= codes[i].expires_at
    /\ last'.input = codes[i].code

\* C19: request_email_change with the right current password and a free
\* target sets pending_email to the target and adds a code for the user,
\* leaving email as it is; confirm_email_change with the live code of the
\* pending change then sets email to the pending address, pending_email to
\* null and email_verified_at to now, and marks the code used, as long as no
\* other user has made the address its email in between
C19_Step ==
    LET u == last'.user IN
    /\ ChangeStep("request_email_change")
       /\ check_password(u, last'.password)
       /\ last'.new_email # users[u].email
       /\ ~InUse(last'.new_email)
       => /\ last'.err = OK
          /\ users' = [users EXCEPT ![u].pending_email = Some(last'.new_email)]
          /\ users'[u].email = users[u].email
          /\ Len(codes') = Len(codes) + 1
          /\ \A i \in DOMAIN codes : codes'[i] = codes[i]
          /\ LET c == codes'[Len(codes')] IN
                c.user_id = u /\ ~c.is_used /\ c.attempts_count = 0
    /\ ChangeStep("confirm_email_change")
       /\ users[u].pending_email # None
       /\ LiveCodeGiven(u)
       /\ (\A v \in DOMAIN users : users[v].email # users[u].pending_email[1])
       => /\ last'.err = OK
          /\ users' = [users EXCEPT ![u].email = users[u].pending_email[1],
                                    ![u].pending_email = None,
                                    ![u].email_verified_at = Some(now)]
          /\ codes' = [codes EXCEPT ![last'.row].is_used = TRUE]
          /\ last'.row = get_latest_active_by_user_id(u)
C20_Step ==
    LET u == last'.user
        right == check_password(u, last'.password)
        same == last'.new_email = users[u].email
    IN  ChangeStep("request_email_change") =>
          /\ ~right => last'.err = "INVALID_CREDENTIALS"
          /\ right /\ same => last'.err = "SAME_EMAIL"
          /\ right /\ ~same /\ InUse(last'.new_email)
                => last'.err = "EMAIL_ALREADY_IN_USE"
          /\ ~right \/ same \/ InUse(last'.new_email)
                => UNCHANGED <<users, codes>>
C20_EmailChangeRejections == [][C20_Step]_vars

-----------------------------------------------------------------------------
(* Account activation and deactivation among administrators: two active     *)
(* SUPER_ADMIN accounts and one USER account, each holding an access token   *)

AdminUserIds == {1, 2, 3}

AdminUsers ==
    [u \in AdminUserIds |->
        [email |-> IF u = 1 THEN "a@x.com" ELSE IF u = 2 THEN "b@x.com" ELSE "c@x.com",
         password_hash |-> hash_password(PwFirst, 0),
         role |-> IF u = 3 THEN "USER" ELSE "SUPER_ADMIN",
         email_verified_at |-> Some(0),
         pending_email |-> None,
         is_active |-> TRUE]]

InitAdmin ==
    /\ sessions = <<>>
    /\ now = 0
    /\ users = AdminUsers
    /\ reset_tokens = <<>>
    /\ codes = <<>>
    /\ access_tokens = {create_access_token(u) : u \in AdminUserIds}
    /\ last = [op |-> "init"]

NextAdmin ==
    \/ \E t \in access_tokens, p \in {PwFirst, PwSecond} : deactivate_account(t, p)
    \/ \E user_id \in AdminUserIds \cup {4} : deactivate_user(user_id)
    \/ \E user_id \in AdminUserIds \cup {4} : activate_user(user_id)
    \/ \E p \in {PwFirst, PwSecond} : login("a@x.com", p)
    \/ Tick

SpecAdmin == InitAdmin /\ [][NextAdmin]_vars

-----------------------------------------------------------------------------
(* The life of an account: two verified users hold access tokens and change  *)
(* their addresses while a third account registers and verifies its own      *)

NextLifecycle ==
    \/ \E t \in access_tokens, e \in ChangeEmails, p \in {PwFirst, PwSecond} :
          request_email_change(t, e, p) /\ AuthBounded
    \/ \E t \in access_tokens, c \in InputCodes :
          confirm_email_change(t, c) /\ AuthBounded
    \/ register("c@x.com", PwFirst) /\ AuthBounded
    \/ \E c \in InputCodes : verify_email("c@x.com", c) /\ AuthBounded
    \/ resend_otp("c@x.com") /\ AuthBounded
    \/ \E t \in access_tokens, p \in {PwFirst, PwSecond} : deactivate_account(t, p)
    \/ Tick /\ AuthBounded

SpecLifecycle == InitChange /\ [][NextLifecycle]_vars

-----------------------------------------------------------------------------
(* The password policy as a function: passwords of the lengths around both   *)
(* limits, ending in every short run of characters of each class             *)

MaxSuffix == 3

PolicyAlphabet == {"a", "P", "0", "_", "!", Newline}

PolicyFillLengths == (4..8) \cup (60..65)

Suffixes == UNION {[1..k -> PolicyAlphabet] : k \in 0..MaxSuffix}

PolicyInputs ==
    {[i \in 1..n |-> "a"] \o s : n \in PolicyFillLengths, s \in Suffixes}

InitPolicy ==
    /\ sessions = <<>>
    /\ now = 0
    /\ users = <<>>
    /\ reset_tokens = <<>>
    /\ codes = <<>>
    /\ access_tokens = {}
    /\ \E p \in PolicyInputs : last = [op |-> "init", password |-> p]

\* _validate(password): ValueError when PASSWORD_REGEX does not match
validate_password ==
    /\ last.op = "init"
    /\ last' = [op |-> "validate_password", password |-> last.password,
                err |-> IF validate_password_strength(last.password)
                        THEN OK ELSE "ValueError"]
    /\ UNCHANGED <<now, users, reset_tokens, codes, access_tokens, sessions>>

NextPolicy == validate_password

SpecPolicy == InitPolicy /\ [][NextPolicy]_vars

-----------------------------------------------------------------------------
(* Storing passwords: two verified users hold access tokens; passwords are   *)
(* stored by register, reset_password and change_password                    *)

NextPassword ==
    \/ \E p \in Passwords : register("c@x.com", p) /\ AuthBounded
    \/ forgot_password("a@x.com") /\ AuthBounded
    \/ \E token \in 0..AuthMaxTokens, p \in Passwords : reset_password(token, p)
    \/ \E t \in access_tokens, p \in Passwords, q \in Passwords :
          change_password(t, p, q)
    \/ Tick /\ AuthBounded

SpecPassword == InitChange /\ [][NextPassword]_vars

-----------------------------------------------------------------------------
(* Access tokens over their lifetime: a user logs in, time passes in half    *)
(* seconds around the issue and the expiry and in one long step between,    *)
(* and tokens are presented: issued ones, and ones that are signed with      *)
(* another key, malformed or of another type                                 *)

TokenWindow == 2
TokenMaxTime == 1803

\* the long step: half a second less than the lifetime of a token
TokenSleep == timedelta_minutes(ACCESS_TOKEN_EXPIRE_MINUTES) - 1

InitToken ==
    /\ sessions = <<>>
    /\ now = 0
    /\ users = RegisteredUsers
    /\ reset_tokens = <<>>
    /\ codes = <<>>
    /\ access_tokens = {}
    /\ last = [op |-> "init"]

PresentedTokens ==
    access_tokens
    \cup {[t EXCEPT !.key = OTHER_KEY] : t \in access_tokens}
    \cup {[t EXCEPT !.wellformed = FALSE] : t \in access_tokens}
    \cup {[t EXCEPT !.type = "refresh"] : t \in access_tokens}

\* a caller presents a token: verify_access_token(token)
present_token(t) ==
    /\ last' = [op |-> "verify_access_token", token |-> t,
                raised |-> VerifyRaised(t), subject |-> verify_access_token(t)]
    /\ UNCHANGED <<now, users, reset_tokens, codes, access_tokens, sessions>>

TokenTickFraction ==
    /\ now % TokenSleep < TokenWindow * Second
    /\ now' = now + 1
    /\ last' = [op |-> "tick"]
    /\ UNCHANGED <<users, reset_tokens, codes, access_tokens, sessions>>

TokenTickSleep ==
    /\ now + TokenSleep <= TokenMaxTime * Second
    /\ now' = now + TokenSleep
    /\ last' = [op |-> "tick"]
    /\ UNCHANGED <<users, reset_tokens, codes, access_tokens, sessions>>

NextToken ==
    \/ login("a@x.com", PwFirst)
    \/ \E t \in PresentedTokens : present_token(t)
    \/ TokenTickFraction
    \/ TokenTickSleep

SpecToken == InitToken /\ [][NextToken]_vars

-----------------------------------------------------------------------------
(* forgot_password requests that overlap.  Each request runs in its own      *)
(* session (get_db): it selects the user's unused tokens, and later flushes  *)
(* and commits "is_used = True" for the rows it selected together with the   *)
(* row of its new token.  The select takes no lock and the engine is created *)
(* with the isolation level of the database (READ COMMITTED), so another     *)
(* request may select and commit between the two steps.                      *)

Requests == {1, 2}

ForgotEmails == {"a@x.com", "nobody@x.com"}

IdleSession == [pc |-> "idle"]

InitForgot ==
    /\ now = 0
    /\ users = RegisteredUsers
    /\ reset_tokens = <<>>
    /\ codes = <<>>
    /\ access_tokens = {}
    /\ last = [op |-> "init"]
    /\ sessions = [r \in Requests |-> IdleSession]

\* lines 78-100: get_by_email, the select of the unused tokens, the marking of
\* the selected objects and the expiry of the new token, all in the session
forgot_password_select(r, email) ==
    LET found == get_by_email(email) IN
    /\ sessions[r].pc = "idle"
    /\ Len(reset_tokens) + Cardinality({q \in Requests : sessions[q].pc = "selected"})
          < MaxTokens
    /\ sessions' =
         [sessions EXCEPT ![r] =
            IF found = {} THEN IdleSession
            ELSE [pc |-> "selected",
                  user_id |-> CHOOSE u \in found : TRUE,
                  existing_tokens |-> ActiveTokensOf(CHOOSE u \in found : TRUE),
                  expires_at |-> now + timedelta_minutes(RESET_TOKEN_VALIDITY_MINUTES)]]
    /\ last' = [op |-> "forgot_password.select", request |-> r, email |-> email,
                err |-> OK]
    /\ UNCHANGED <<now, users, reset_tokens, codes, access_tokens>>

\* the rows after the flush of "token_obj.is_used = True" for the objects
\* this session selected: an UPDATE by primary key of each of them
CommittedRows(r) ==
    [i \in 1..Len(reset_tokens) |->
        IF i \in sessions[r].existing_tokens
        THEN [reset_tokens[i] EXCEPT !.is_used = TRUE]
        ELSE reset_tokens[i]]

\* lines 107-113: self.db.add(reset_token); await self.db.commit()
forgot_password_commit(r) ==
    /\ sessions[r].pc = "selected"
    /\ reset_tokens' =
         Append(CommittedRows(r),
                [NewResetToken(sessions[r].user_id) EXCEPT
                    !.expires_at = sessions[r].expires_at])
    /\ sessions' = [sessions EXCEPT ![r] = IdleSession]
    /\ last' = [op |-> "forgot_password.commit", request |-> r,
                email |-> users[sessions[r].user_id].email, err |-> OK]
    /\ UNCHANGED <<now, users, codes, access_tokens>>

TickForgot ==
    /\ now + TickSeconds * Second <= MaxTime * Second
    /\ now' = now + TickSeconds * Second
    /\ last' = [op |-> "tick"]
    /\ UNCHANGED <<users, reset_tokens, codes, access_tokens, sessions>>

NextForgot ==
    \/ \E r \in Requests, email \in ForgotEmails : forgot_password_select(r, email)
    \/ \E r \in Requests : forgot_password_commit(r)
    \/ TickForgot

SpecForgot == InitForgot /\ [][NextForgot]_vars

-----------------------------------------------------------------------------
\* Claims C21 .. C30

UniqueEmails ==
    \A u, v \in DOMAIN users : users[u].email = users[v].email => u = v

C21_Step ==
    \A u \in DOMAIN users :
        users'[u].email # users[u].email =>
            /\ last'.op = "confirm_email_change"
            /\ last'.err = OK
            /\ last'.user = u
            /\ users[u].pending_email = Some(users'[u].email)

\* C21: in every reachable state no two users have the same primary email,
\* and a user's primary email changes only in a successful
\* confirm_email_change of that user (to the address that was pending).
C21_PrimaryEmailUnique == []UniqueEmails /\ [][C21_Step]_vars

\* a successful confirmation has just moved a user to a new primary email
\* that no other account holds
C21_Witness ==
    /\ last.op = "confirm_email_change"
    /\ last.err = OK
    /\ users[last.user].email = "c@x.com"
    /\ users[last.user].pending_email = None
    /\ UniqueEmails

\* C22: the last active SUPER_ADMIN is never deactivated: from a state with
\* an active SUPER_ADMIN, every sequence of deactivation operations leaves at
\* least one active SUPER_ADMIN, and deactivate_account by the sole active
\* SUPER_ADMIN raises LastSuperAdmin and leaves is_active true.
C22_LastSuperAdminKept ==
    /\ ActiveSuperAdmins # {}
    /\ (last.op = "deactivate_account" /\ last.err = "LAST_SUPER_ADMIN")
          => (users[last.user].is_active /\ ActiveSuperAdmins = {last.user})
    /\ (last.op = "deactivate_account" /\ last.err = OK
            /\ users[last.user].role = "SUPER_ADMIN")
          => ~users[last.user].is_active

VerifiedAtBefore(u) ==
    IF u \in DOMAIN users THEN users[u].email_verified_at ELSE None

C23_Step ==
    \A u \in DOMAIN users' :
        /\ (VerifiedAtBefore(u) = None /\ users'[u].email_verified_at # None) =>
              /\ last'.err = OK
              /\ \/ last'.op = "verify_email" /\ users[u].email = last'.email
                 \/ last'.op = "confirm_email_change" /\ last'.user = u
              /\ users'[u].email_verified_at = Some(now)
        /\ VerifiedAtBefore(u) # None => users'[u].email_verified_at # None

\* C23: email_verified_at becomes non-null only in a successful OTP
\* verification (verify_email of that address or confirm_email_change of
\* that user), and once non-null it is never null again.
C23_VerifiedOnlyByOTP == [][C23_Step]_vars

\* the account registered during the run has just been verified by
\* verify_email, after one of the older accounts was deactivated
C23_Witness ==
    /\ Len(users) = 3
    /\ last.op = "verify_email"
    /\ last.err = OK
    /\ users[3].email_verified_at = Some(now)
    /\ now > 0
    /\ \E u \in UserIds : ~users[u].is_active /\ users[u].email_verified_at # None

\* the rule as the specification words it: 8 to 64 characters with a
\* lowercase letter, an uppercase letter, a digit and a symbol, a symbol
\* being a character that is neither alphanumeric nor the underscore
StatedPolicy(p) ==
    /\ Len(p) >= 8
    /\ Len(p) <= 64
    /\ \E i \in 1..Len(p) : p[i] \in Lower
    /\ \E i \in 1..Len(p) : p[i] \in Upper
    /\ \E i \in 1..Len(p) : p[i] \in Digit
    /\ \E i \in 1..Len(p) : p[i] \notin (Lower \cup Upper \cup Digit \cup {"_"})

\* C24: validate_password_strength accepts a password iff its length is 8
\* to 64 inclusive and it contains a lowercase letter, an uppercase letter,
\* a digit and a symbol (a non-alphanumeric, non-underscore character).
C24_PolicyAcceptance ==
    last.op = "validate_password" =>
        ((last.err = OK) <=> StatedPolicy(last.password))

\* the plain password a stored hash was made from
PlainOf(h) == h.digest[2]

StoredHashesValid ==
    \A u \in DOMAIN users : validate_password_strength(PlainOf(users[u].password_hash))

\* the password the operation of this step was given to store (None when the
\* step is not register, reset_password or change_password)
PasswordToStore ==
    IF last'.op \in {"register", "reset_password"} THEN Some(last'.password)
    ELSE IF last'.op = "change_password" THEN Some(last'.new_password)
    ELSE None

\* every check that precedes the storing passes in the state before the
\* step (for change_password: get_current_user let the caller in)
ReachesStoring ==
    \/ last'.op = "register" /\ get_by_email(last'.email) = {}
    \/ /\ last'.op = "reset_password"
       /\ \E i \in ActiveTokensByHash(sha256_hexdigest(last'.token)) :
             /\ now <= reset_tokens[i].expires_at
             /\ ~check_password(reset_tokens[i].user_id, last'.password)
    \/ /\ last'.op = "change_password"
       /\ last'.err \notin {"INVALID_TOKEN", "USER_NOT_FOUND", "USER_INACTIVE"}
       /\ check_password(last'.user, last'.current_password)
       /\ last'.new_password # last'.current_password

C25_Step ==
    (PasswordToStore # None /\ ~validate_password_strength(PasswordToStore[1])) =>
        /\ DOMAIN users' = DOMAIN users
        /\ \A u \in DOMAIN users : users'[u].password_hash = users[u].password_hash
        /\ ReachesStoring =>
              /\ last'.err = "WEAK_PASSWORD"
              /\ users' = users
              /\ reset_tokens' = reset_tokens
              /\ codes' = codes

ChangePasswordStep ==
    /\ last'.op = "change_password"
    /\ last'.err \notin {"INVALID_TOKEN", "USER_NOT_FOUND", "USER_INACTIVE"}

HashUnchanged(u) == users'[u].password_hash = users[u].password_hash

\* after the step, new_password is the one password that verifies for u
OnlyNewVerifies(u, new_password) ==
    /\ users'[u].password_hash # users[u].password_hash
    /\ \A p \in Passwords :
          verify_password(p, users'[u].password_hash) <=> p = new_password

C27_Original_Step ==
    ChangePasswordStep =>
        LET u == last'.user IN
        IF ~check_password(u, last'.current_password)
        THEN last'.err = "INVALID_CREDENTIALS" /\ HashUnchanged(u)
        ELSE IF last'.new_password = last'.current_password
        THEN last'.err = "PASSWORD_REUSE_NOT_ALLOWED" /\ HashUnchanged(u)
        ELSE last'.err = OK /\ OnlyNewVerifies(u, last'.new_password)

C27_Step ==
    ChangePasswordStep =>
        LET u == last'.user IN
        IF ~check_password(u, last'.current_password)
        THEN last'.err = "INVALID_CREDENTIALS" /\ HashUnchanged(u)
        ELSE IF last'.new_password = last'.current_password
        THEN last'.err = "PASSWORD_REUSE_NOT_ALLOWED" /\ HashUnchanged(u)
        ELSE IF ~validate_password_strength(last'.new_password)
        THEN last'.err = "WEAK_PASSWORD" /\ HashUnchanged(u)
        ELSE last'.err = OK /\ OnlyNewVerifies(u, last'.new_password)

AccessTokenLifetime == timedelta_minutes(ACCESS_TOKEN_EXPIRE_MINUTES)

\* the last operation presented a token that is expired, signed with another
\* key, malformed or not of type "access": it got None and nothing was raised
RejectsQuietly ==
    last.op = "verify_access_token" =>
        /\ last.raised = None
        /\ (\/ last.token.exp <= now
            \/ last.token.key # SECRET_KEY
            \/ ~last.token.wellformed
            \/ last.token.type # "access") => last.subject = None

\* login has just issued last.token (now is the issue time): in the next
\* state, if it is earlier than issue time + lifetime, the token verifies
C26_Original_Step ==
    (last.op = "login" /\ last.err = OK) =>
        \A t \in {last.token[1]} :
            now' < now + AccessTokenLifetime =>
                (verify_access_token(t) = Some(t.sub))'

\* C26 as stated: an access token issued for subject S verifies to S at any
\* time before issue time + configured TTL, and verify_access_token returns
\* None, never raising, for a token that is expired, signed with a different
\* key, malformed or not of type "access".
C26_Original == []RejectsQuietly /\ [][C26_Original_Step]_vars

\* C26, amended: the expiry a token carries is issue time + configured TTL
\* with the fraction of a second dropped; the token verifies to its subject
\* at any time before that expiry, and verify_access_token returns None,
\* never raising, for a token that is expired, signed with a different key,
\* malformed or not of type "access".
C26_AccessTokenLifetime ==
    /\ (last.op = "login" /\ last.err = OK) =>
          /\ last.token[1].exp <= now + AccessTokenLifetime
          /\ last.token[1].exp > now + AccessTokenLifetime - Second
          /\ last.token[1].exp % Second = 0
          /\ last.token[1].sub \in get_by_email(last.email)
    /\ \A t \in access_tokens :
          now < t.exp => (VerifyRaised(t) = None /\ verify_access_token(t) = Some(t.sub))
    /\ RejectsQuietly

\* a token issued at a time with a fraction of a second is presented within
\* the last second before its expiry and verifies, and some issued token
\* has expired
C26_Witness ==
    /\ last.op = "verify_access_token"
    /\ last.token \in access_tokens
    /\ last.subject = Some(last.token.sub)
    /\ now + Second > last.token.exp
    /\ \E t \in access_tokens : t.exp <= now /\ verify_access_token(t) = None

\* deactivate_account ran for a caller get_current_user let in, with a
\* password that is not the caller's
WrongPasswordDeactivation ==
    /\ last'.op = "deactivate_account"
    /\ last'.err \notin {"INVALID_TOKEN", "USER_NOT_FOUND", "USER_INACTIVE"}
    /\ ~check_password(last'.user, last'.password)

C28_Step ==
    /\ WrongPasswordDeactivation =>
          /\ last'.err = "INVALID_CREDENTIALS"
          /\ users[last'.user].is_active
          /\ users' = users
    /\ (last'.op = "deactivate_account" /\ last'.err = OK) =>
          /\ check_password(last'.user, last'.password)
          /\ ~users'[last'.user].is_active

\* a user that deactivated its account (it was verified and held a token)
\* and is inactive: login with the right password raises UserInactive and
\* get_current_user rejects every token issued to the user
InactiveLockedOut ==
    \A u \in DOMAIN users :
        (~users[u].is_active /\ users[u].email_verified_at # None) =>
            /\ \A p \in Passwords :
                  check_password(u, p) =>
                      LoginOutcome(users[u].email, p) = UserInactiveException(u)
            /\ \A t \in access_tokens :
                  t.sub = u => get_current_user(t).err \in {"USER_INACTIVE", "INVALID_TOKEN"}

\* C28: deactivate_account with a wrong current password raises
\* InvalidCredentials and leaves is_active true; once it succeeded, and for
\* as long as the user is inactive, login with correct credentials raises
\* UserInactive and get_current_user rejects every access token issued to
\* the user.
C28_DeactivatedLockedOut == []InactiveLockedOut /\ [][C28_Step]_vars

\* some time after a user deactivated its account, a login with its right
\* password was refused as inactive while the user still holds a token that
\* has not expired
C28_Witness ==
    /\ last.op = "login"
    /\ last.err = "USER_INACTIVE"
    /\ now > 0
    /\ \E u \in get_by_email(last.email) :
          /\ check_password(u, last.password)
          /\ \E t \in access_tokens :
                t.sub = u /\ verify_access_token(t) = Some(u)
                          /\ get_current_user(t).err = "USER_INACTIVE"

\* C29: the verification code created by request_email_change is sent to
\* the new email address (the requested pending_email), not to the user's
\* current email.
C29_CodeGoesToNewAddress ==
    (last.op = "request_email_change" /\ last.err = OK) =>
        /\ last.notice # None
        /\ users[last.user].pending_email = Some(last.new_email)
        /\ last.notice[1].address = last.new_email
        /\ last.notice[1].address # users[last.user].email

\* no forgot_password request stands between its select and its commit
AllCommitted == \A r \in Requests : sessions[r].pc = "idle"

\* C30: when two forgot_password requests for the same user overlap (each
\* reads the user's unused tokens, marks them used, inserts its own token
\* and commits), no state after both have committed has two unused reset
\* tokens for that user.
C30_OneUnusedTokenAfterOverlap ==
    AllCommitted =>
        \A u \in DOMAIN users : Cardinality(ActiveTokensOf(u)) <= 1

-----------------------------------------------------------------------------
(* The life of an account that kept an unused code from its registration:   *)
(* user 1 registered twice before verifying (the second register issued a   *)
(* newer code, the one it verified with; used rows are left out)            *)

InitPurpose ==
    /\ sessions = <<>>
    /\ now = 0
    /\ users = RegisteredUsers
    /\ reset_tokens = <<>>
    /\ codes = <<NewOtp(1, "1234")>>
    /\ access_tokens = {create_access_token(u) : u \in UserIds}
    /\ last = [op |-> "init"]

SpecPurpose == InitPurpose /\ [][NextLifecycle]_vars

-----------------------------------------------------------------------------
(* Checked codes: user 1 has just registered and user 2, verified and       *)
(* logged in, changes its address; both try codes until they are exhausted  *)
(* or expired                                                                *)

FailMaxCodes == 2

InitFailures ==
    /\ sessions = <<>>
    /\ now = 0
    /\ users = OTPUsers
    /\ reset_tokens = <<>>
    \* the used code of user 2's registration is left out
    /\ codes = <<NewOtp(1, "1234")>>
    /\ access_tokens = {create_access_token(2)}
    /\ last = [op |-> "init"]

NextFailures ==
    \/ \E email \in Emails, c \in InputCodes : verify_email(email, c)
    \/ \E t \in access_tokens :
          request_email_change(t, "c@x.com", PwFirst) /\ Len(codes') <= FailMaxCodes
    \/ \E t \in access_tokens, c \in InputCodes : confirm_email_change(t, c)
    \/ Tick

SpecFailures == InitFailures /\ [][NextFailures]_vars

-----------------------------------------------------------------------------
(* verify_email requests that overlap.  Each request selects the user and   *)
(* its latest unused code into its own session, runs verify_or_raise on the *)
(* object it loaded, and later flushes the attributes that method changed   *)
(* and commits.  The select takes no lock: another request may select and   *)
(* commit between the two steps.                                            *)

VerifyEmails == {"a@x.com", "b@x.com"}

InitVerifyRace ==
    /\ now = 0
    /\ users = OTPUsers
    /\ reset_tokens = <<>>
    /\ codes = <<NewOtp(1, "1234")>>
    /\ access_tokens = {}
    /\ last = [op |-> "init"]
    /\ sessions = [r \in Requests |-> IdleSession]

\* lines 247-262: get_by_email, the check of email_verified_at, the select of
\* the latest unused code and verify_or_raise on the loaded object; an
\* exception raised before verify_or_raise ends the request
verify_email_select(r, email, input_code) ==
    LET found == get_by_email(email)
        u == CHOOSE x \in found : TRUE
        i == get_latest_active_by_user_id(u)
        err == IF found = {} THEN "USER_NOT_FOUND"
               ELSE IF AlreadyVerified(u) THEN "EMAIL_ALREADY_VERIFIED"
               ELSE IF i = 0 THEN "OTP_INVALID"
               ELSE OK
    IN
    /\ sessions[r].pc = "idle"
    /\ sessions' =
         [sessions EXCEPT ![r] =
            IF err # OK THEN IdleSession
            ELSE [pc |-> "selected",
                  user_id |-> u,
                  row |-> i,
                  input |-> input_code,
                  checked |-> verify_or_raise(codes[i], input_code),
                  at |-> now]]
    /\ last' = [op |-> "verify_email.select", request |-> r, email |-> email,
                input |-> input_code, row |-> IF err = OK THEN i ELSE 0,
                err |-> err]
    /\ UNCHANGED <<now, users, reset_tokens, codes, access_tokens>>

\* the codes table after the flush of this session: an UPDATE by primary key
\* of the attributes verify_or_raise set on the loaded object
FlushedCodes(r) ==
    LET i == sessions[r].row
        c == sessions[r].checked
    IN  IF c.err = "OTP_INVALID"
        THEN [codes EXCEPT ![i].attempts_count = c.code.attempts_count]
        ELSE IF c.err = OK
        THEN [codes EXCEPT ![i].is_used = c.code.is_used]
        ELSE codes

\* lines 263-268: "except Exception: commit; raise", or the assignment of
\* email_verified_at and the commit
verify_email_commit(r) ==
    /\ sessions[r].pc = "selected"
    /\ codes' = FlushedCodes(r)
    /\ users' = IF sessions[r].checked.err = OK
                THEN [users EXCEPT ![sessions[r].user_id].email_verified_at =
                                       Some(sessions[r].at)]
                ELSE users
    /\ sessions' = [sessions EXCEPT ![r] = IdleSession]
    /\ last' = [op |-> "verify_email.commit", request |-> r,
                input |-> sessions[r].input, row |-> sessions[r].row,
                err |-> sessions[r].checked.err]
    /\ UNCHANGED <<now, reset_tokens, access_tokens>>

NextVerifyRace ==
    \/ \E r \in Requests, email \in VerifyEmails, c \in InputCodes :
          verify_email_select(r, email, c)
    \/ \E r \in Requests : verify_email_commit(r)
    \/ TickForgot

SpecVerifyRace == InitVerifyRace /\ [][NextVerifyRace]_vars

-----------------------------------------------------------------------------
(* reset_password requests that overlap.  User 1 asked for a reset token;   *)
(* each request selects the unused row of the token it is given and the     *)
(* user into its own session, decides on the objects it loaded and later    *)
(* flushes what it assigned and commits.  Neither select takes a lock.      *)

RaceTokens == {1, 2}

\* the passwords asked for: those of the other specifications and one more
\* that passes the policy, so that two requests can ask for different ones
PwThird == <<"P", "a", "s", "s", "w", "0", "r", "!">>
RacePasswords == Passwords \cup {PwThird}

InitResetRace ==
    /\ now = 0
    /\ users = RegisteredUsers
    /\ reset_tokens =
         <<[user_id |-> 1,
            token_hash |-> sha256_hexdigest(1),
            expires_at |-> timedelta_minutes(RESET_TOKEN_VALIDITY_MINUTES),
            is_used |-> FALSE]>>
    /\ codes = <<>>
    /\ access_tokens = {}
    /\ last = [op |-> "init"]
    /\ sessions = [r \in Requests |-> IdleSession]

\* lines 129-156: the select of the token, the expiry test, get_by_id, the
\* reuse check and set_password, all on the objects of this session; the
\* exceptions raised with nothing assigned end the request
reset_password_select(r, token, new_password) ==
    LET found == ActiveTokensByHash(sha256_hexdigest(token))
        i == CHOOSE j \in found : TRUE
        u == reset_tokens[i].user_id
        err == IF found = {} THEN "OTP_INVALID"
               ELSE IF now > reset_tokens[i].expires_at THEN "OTP_EXPIRED"
               ELSE IF PasswordReused(u, new_password)
               THEN "PASSWORD_REUSE_NOT_ALLOWED"
               ELSE IF ~validate_password_strength(new_password)
               THEN "WEAK_PASSWORD"
               ELSE OK
    IN
    /\ sessions[r].pc = "idle"
    /\ sessions' =
         [sessions EXCEPT ![r] =
            IF err \in {OK, "OTP_EXPIRED"}
            THEN [pc |-> "selected",
                  row |-> i,
                  user_id |-> u,
                  token |-> token,
                  password |-> new_password,
                  password_hash |->
                      hash_password(new_password, FreshSalt(users[u].password_hash)),
                  err |-> err]
            ELSE IdleSession]
    /\ last' = [op |-> "reset_password.select", request |-> r, token |-> token,
                password |-> new_password, row |-> IF found = {} THEN 0 ELSE i,
                err |-> err]
    /\ UNCHANGED <<now, users, reset_tokens, codes, access_tokens>>

\* lines 142-144 and 156-159: the flush of "reset_token.is_used = True" and,
\* when the password was set, of the user's new hash; then the commit
reset_password_commit(r) ==
    /\ sessions[r].pc = "selected"
    /\ reset_tokens' = [reset_tokens EXCEPT ![sessions[r].row].is_used = TRUE]
    /\ users' = IF sessions[r].err = OK
                THEN [users EXCEPT ![sessions[r].user_id].password_hash =
                                       sessions[r].password_hash]
                ELSE users
    /\ sessions' = [sessions EXCEPT ![r] = IdleSession]
    /\ last' = [op |-> "reset_password.commit", request |-> r,
                token |-> sessions[r].token, password |-> sessions[r].password,
                row |-> sessions[r].row, err |-> sessions[r].err]
    /\ UNCHANGED <<now, codes, access_tokens>>

NextResetRace ==
    \/ \E r \in Requests, token \in RaceTokens, p \in RacePasswords :
          reset_password_select(r, token, p)
    \/ \E r \in Requests : reset_password_commit(r)
    \/ TickForgot

SpecResetRace == InitResetRace /\ [][NextResetRace]_vars

-----------------------------------------------------------------------------
(* deactivate_account requests that overlap.  Two SUPER_ADMINs and a USER   *)
(* are logged in; each request loads its user (get_current_user), checks    *)
(* the password, selects the active users into its own session and later    *)
(* flushes "is_active = False" for its user and commits.  The select takes  *)
(* no lock.                                                                  *)

InitDeactivateRace ==
    /\ now = 0
    /\ users = AdminUsers
    /\ reset_tokens = <<>>
    /\ codes = <<>>
    /\ access_tokens = {create_access_token(u) : u \in AdminUserIds}
    /\ last = [op |-> "init"]
    /\ sessions = [r \in Requests |-> IdleSession]

\* get_current_user and lines 193-200: the password check and, for a
\* SUPER_ADMIN, the select of the active users and the test on that list
deactivate_account_select(r, t, current_password) ==
    LET cur == get_current_user(t)
        u == cur.user
        err == IF cur.err # OK THEN cur.err
               ELSE IF ~check_password(u, current_password) THEN "INVALID_CREDENTIALS"
               ELSE IF users[u].role = "SUPER_ADMIN" /\ ActiveSuperAdmins = {u}
                    THEN "LAST_SUPER_ADMIN"
               ELSE OK
    IN
    /\ sessions[r].pc = "idle"
    /\ sessions' =
         [sessions EXCEPT ![r] =
            IF err = OK
            THEN [pc |-> "selected", user_id |-> u, password |-> current_password]
            ELSE IdleSession]
    /\ last' = [op |-> "deactivate_account.select", request |-> r, user |-> u,
                password |-> current_password, err |-> err]
    /\ UNCHANGED <<now, users, reset_tokens, codes, access_tokens>>

\* lines 202-203: user.deactivate(); await self.db.commit()
deactivate_account_commit(r) ==
    /\ sessions[r].pc = "selected"
    /\ users' = [users EXCEPT ![sessions[r].user_id].is_active = FALSE]
    /\ sessions' = [sessions EXCEPT ![r] = IdleSession]
    /\ last' = [op |-> "deactivate_account.commit", request |-> r,
                user |-> sessions[r].user_id,
                password |-> sessions[r].password, err |-> OK]
    /\ UNCHANGED <<now, reset_tokens, codes, access_tokens>>

NextDeactivateRace ==
    \/ \E r \in Requests, t \in access_tokens, p \in {PwFirst, PwSecond} :
          deactivate_account_select(r, t, p)
    \/ \E r \in Requests : deactivate_account_commit(r)
    \/ TickForgot

SpecDeactivateRace == InitDeactivateRace /\ [][NextDeactivateRace]_vars

-----------------------------------------------------------------------------
(* Registering again: a user has just registered with a first password and  *)
(* registers again, with that password or another, before and after it      *)
(* verifies its address and logs in                                          *)

NextReRegister ==
    \/ \E p \in {PwFirst, PwSecond} : register("a@x.com", p) /\ AuthBounded
    \/ \E c \in InputCodes : verify_email("a@x.com", c) /\ AuthBounded
    \/ \E p \in {PwFirst, PwSecond} : login("a@x.com", p)
    \/ Tick /\ AuthBounded

SpecReRegister == InitCooldown /\ [][NextReRegister]_vars

-----------------------------------------------------------------------------
\* Claims C31 .. C40

AttemptsInRange ==
    \A i \in 1..Len(codes) :
        codes[i].attempts_count >= 0 /\ codes[i].attempts_count <= MAX_ATTEMPTS

C31_Step ==
    /\ Len(codes') >= Len(codes)
    /\ \A i \in 1..Len(codes) :
          /\ codes'[i].attempts_count >= codes[i].attempts_count
          /\ codes[i].is_used => codes'[i].is_used
          /\ codes'[i].user_id = codes[i].user_id
          /\ codes'[i].code = codes[i].code

\* C31: for every verification code, in every reachable state
\* 0 <= attempts_count <= 5; attempts_count never decreases; is_used, once
\* true, never becomes false again; and no code row is ever deleted.
C31_CodeRowsMonotonic == []AttemptsInRange /\ [][C31_Step]_vars

\* a code stands at the cap of 5 attempts while a newer code of the same
\* user has been issued, next to a code that was used
C31_Witness ==
    \E i, j, k \in 1..Len(codes) :
        /\ codes[i].attempts_count = MAX_ATTEMPTS
        /\ j > i /\ codes[j].user_id = codes[i].user_id
        /\ codes[k].is_used

\* code row i has been followed by a newer code of the same user
Superseded_Code(i) ==
    \E j \in 1..Len(codes) : j > i /\ codes[j].user_id = codes[i].user_id

C32_Step ==
    \A i \in 1..Len(codes) :
        Superseded_Code(i) =>
            /\ codes'[i].attempts_count = codes[i].attempts_count
            /\ codes'[i].is_used = codes[i].is_used
            /\ last'.op \in {"verify_email", "confirm_email_change"}
                  => last'.row # i

\* C32: verify_email and confirm_email_change act only on the user's most
\* recently created unused code: once a newer code has been issued to a
\* user, no earlier code of that user is handed to verify_or_raise, verified
\* or changed in attempts_count or is_used.
C32_OnlyLatestCodeActedOn == [][C32_Step]_vars

\* the newer of two codes of one user has just been verified and the older
\* one is still unused and untouched
C32_Witness ==
    /\ last.op \in {"verify_email", "confirm_email_change"}
    /\ last.err = OK
    /\ last.row # 0
    /\ \E i \in 1..Len(codes) :
          /\ i < last.row
          /\ codes[i].user_id = codes[last.row].user_id
          /\ ~codes[i].is_used
          /\ codes[i].attempts_count = 0

\* C33: purposes never cross: a code issued by register or resend_otp is
\* never the code checked by confirm_email_change, and a code issued by
\* request_email_change is never the code checked by verify_email.
C33_PurposesNeverCross ==
    /\ (last.op = "confirm_email_change" /\ last.row # 0)
          => codes[last.row].issued_for = "email_change"
    /\ (last.op = "verify_email" /\ last.row # 0)
          => codes[last.row].issued_for = "verification"

\* confirm_email_change has just checked the code of the change while the
\* same user still has an older unused code from its registration
C33_Witness ==
    /\ last.op = "confirm_email_change"
    /\ last.row # 0
    /\ \E i \in 1..Len(codes) :
          /\ i < last.row
          /\ codes[i].user_id = codes[last.row].user_id
          /\ codes[i].issued_for = "verification"
          /\ ~codes[i].is_used

\* verify_email or confirm_email_change has just raised
FailedCheck ==
    /\ last'.op \in {"verify_email", "confirm_email_change"}
    /\ last'.err # OK

\* the raised check was a mismatch against a row
Mismatch == last'.err = "OTP_INVALID" /\ last'.row # 0

C34_Step ==
    FailedCheck =>
        /\ users' = users
        /\ reset_tokens' = reset_tokens
        /\ IF Mismatch
           THEN codes' = [codes EXCEPT ![last'.row].attempts_count = @ + 1]
           ELSE codes' = codes

\* C34: a failed verify_email or confirm_email_change leaves the user's email,
\* pending_email and email_verified_at and the code's is_used unchanged; the
\* only persisted effect is the attempts_count increment on a mismatch, which
\* is committed although the operation raises.
C34_FailedCheckPersistsOnlyAttempt == [][C34_Step]_vars

\* confirm_email_change has just raised for the fifth mismatch on the code of
\* a pending change, and the counter of that row stands at the cap
C34_Witness ==
    /\ last.op = "confirm_email_change"
    /\ last.err = "OTP_INVALID"
    /\ last.row # 0
    /\ codes[last.row].attempts_count = MAX_ATTEMPTS
    /\ ~codes[last.row].is_used
    /\ users[codes[last.row].user_id].pending_email # None

\* the requests that have evaluated a wrong guess against row i and have not
\* committed yet
PendingMismatches(i) ==
    {r \in DOMAIN sessions :
        /\ sessions[r].pc = "selected"
        /\ sessions[r].row = i
        /\ sessions[r].checked.err = "OTP_INVALID"}

\* every wrong guess evaluated against a row is counted when it commits
C35_Step ==
    (last'.op = "verify_email.commit" /\ last'.err = "OTP_INVALID")
       => codes'[last'.row].attempts_count = codes[last'.row].attempts_count + 1

\* the wrong guesses already counted on a row and those evaluated and
\* waiting to be committed never exceed the cap together
EvaluatedWithinCap ==
    \A i \in 1..Len(codes) :
        codes[i].attempts_count + Cardinality(PendingMismatches(i)) <= MAX_ATTEMPTS

\* C35: the attempt cap holds under concurrency: when verify requests with
\* wrong codes for the same user overlap, each mismatch is counted, so no
\* more than 5 mismatched guesses are ever evaluated against one code.
C35_AttemptCapUnderOverlap == []EvaluatedWithinCap /\ [][C35_Step]_vars

\* a reset_password request commits a new password only by redeeming a
\* token row that no request has redeemed before
C36_Step ==
    (last'.op = "reset_password.commit" /\ last'.err = OK)
       => ~reset_tokens[last'.row].is_used

\* C36: a reset token is redeemed successfully at most once even when two
\* reset_password requests with the same raw token overlap: at most one of
\* them changes the password.
C36_TokenRedeemedOnce == [][C36_Step]_vars

\* C37: when two distinct active SUPER_ADMINs run deactivate_account
\* concurrently (each reads the list of active users before the other
\* commits), at least one active SUPER_ADMIN still remains after both finish.
C37_SuperAdminRemainsAfterOverlap == AllCommitted => ActiveSuperAdmins # {}

\* register was called for the address of a user that has not verified it
ReRegisterStep ==
    /\ last'.op = "register"
    /\ \E u \in get_by_email(last'.email) : users[u].email_verified_at = None

\* nothing changes on the user, and one unused code of that user is added
C38_Step ==
    ReRegisterStep =>
        /\ users' = users
        /\ Len(codes') = Len(codes) + 1
        /\ SubSeq(codes', 1, Len(codes)) = codes
        /\ codes'[Len(codes')].user_id \in get_by_email(last'.email)
        /\ ~codes'[Len(codes')].is_used
        /\ codes'[Len(codes')].attempts_count = 0

\* a login of the verified user succeeds with the password of the first
\* registration and with no other
FirstPasswordLogsIn ==
    (last.op = "login" /\ users[1].email_verified_at # None)
        => /\ last.password = PwFirst => last.err = OK
           /\ last.password # PwFirst => last.err = "INVALID_CREDENTIALS"

\* C38: register on an email that belongs to an existing unverified user
\* changes nothing on that user except adding a code: the stored password hash
\* stays the one from the first registration, so after verification the
\* password from the later register call does not log in and the first one
\* does.
C38_ReRegisterKeepsPassword == []FirstPasswordLogsIn /\ [][C38_Step]_vars

\* the user registered again with another password, and the stored hash
\* still verifies the first password only
C38_Witness ==
    /\ last.op = "register"
    /\ last.password = PwSecond
    /\ last.err = OK
    /\ last.user_id = 1
    /\ Len(codes) = 2
    /\ check_password(1, PwFirst)
    /\ ~check_password(1, PwSecond)

\* an address that is some user's pending_email is no other user's email
PendingReserved ==
    \A u, v \in DOMAIN users :
        (u # v /\ users[u].pending_email # None)
            => users[v].email # users[u].pending_email[1]

\* register and request_email_change never give another user an address
\* that is pending, and confirm_email_change with the right live code
\* completes
C39_Step ==
    LET u == last'.user IN
    (/\ ChangeStep("confirm_email_change")
     /\ users[u].pending_email # None
     /\ LiveCodeGiven(u))
        => /\ last'.err = OK
           /\ users'[u].email = users[u].pending_email[1]

\* C39: while a user has pending_email = e, the address e is reserved: no
\* other user can hold or acquire e as primary email (register and other
\* users' email changes for e are rejected), so confirm_email_change with the
\* correct live code always completes without an email collision.
C39_PendingAddressReserved == []PendingReserved /\ [][C39_Step]_vars

\* the cooldown of the user's latest unused code, if it has one, is over
CooldownOver(u) ==
    LET i == get_latest_active_by_user_id(u) IN
    i = 0 \/ now - codes[i].last_sent_at >= RESEND_COOLDOWN_SECONDS * Second

\* the input is the code of the user's latest unused row, which has attempts
\* left and has not expired
LatestCodeGiven(u) ==
    LET i == get_latest_active_by_user_id(u) IN
    /\ i # 0
    /\ codes[i].attempts_count < MAX_ATTEMPTS
    /\ now <= codes[i].expires_at
    /\ last'.input = codes[i].code

C40_Step ==
    /\ last'.op = "resend_otp" =>
          \A u \in get_by_email(last'.email) :
             (users[u].email_verified_at = None /\ CooldownOver(u))
                => /\ last'.err = OK
                   /\ Len(codes') = Len(codes) + 1
                   /\ SubSeq(codes', 1, Len(codes)) = codes
                   /\ LET c == codes'[Len(codes')] IN
                         /\ c.user_id = u
                         /\ c.attempts_count = 0
                         /\ ~c.is_used
                         /\ c.expires_at = now + timedelta_minutes(OTP_VALIDITY_MINUTES)
    /\ last'.op = "verify_email" =>
          \A u \in get_by_email(last'.email) :
             (users[u].email_verified_at = None /\ LatestCodeGiven(u))
                => /\ last'.err = OK
                   /\ users'[u].email_verified_at = Some(now)

\* C40: exhausting a code or letting it expire never locks an unverified user
\* out for good: in every reachable state with an unverified user, resend_otp
\* succeeds once 60 seconds have passed since the latest unused code was
\* sent, the code it issues has attempts_count 0, and verify_email with that
\* code before its expiry succeeds.
C40_UnverifiedUserRecovers == [][C40_Step]_vars

\* a user has just verified its address with a resent code after using up
\* the attempts of the code before it
C40_Witness ==
    /\ last.op = "verify_email"
    /\ last.err = OK
    /\ last.row # 0
    /\ \E i \in 1..Len(codes) :
          /\ i < last.row
          /\ codes[i].user_id = codes[last.row].user_id
          /\ codes[i].attempts_count = MAX_ATTEMPTS
          /\ ~codes[i].is_used

=============================================================================
